---- MODULE Spec2Model ----
(***************************************************************************)
(* A model of the minescene_graphs diorama ray tracer (Rust).              *)
(*                                                                         *)
(* Lengths are held in thousandths of a world unit (0.8 is 800, the 0.001  *)
(* self-intersection threshold is 1).  Ray directions are small integer    *)
(* vectors; a ray parameter t is held multiplied by TDen, a common         *)
(* multiple of every direction component, so that every quotient of the    *)
(* slab method is an exact integer.  Weights, cosines and the Fresnel      *)
(* reflectance are held in thousandths; colour channels are 0..255.        *)
(* Option<T> is a sequence: <<>> is None and <<v>> is Some(v).             *)
(***************************************************************************)
EXTENDS Integers, Sequences, FiniteSets, TLC

VARIABLES
    pc,        \* position of the operation being modelled
    args,      \* the inputs of the function under test
    result,    \* its return value
    stack,     \* call stack of cast_ray_optimized_recursive, innermost last
    stats,     \* RenderStats
    calls,     \* number of recursive sub-calls made so far (history)
    buffer,    \* Framebuffer.buffer, row-major
    current_color, \* Framebuffer.current_color
    cursor,    \* pixel loop position of render_optimized_recursive
    frame,     \* number of frames started (history)
    painted,   \* per cell: frame of the last write, writes in that frame, colour
    textures,  \* the textures main has loaded so far, by name
    camera,    \* the OrbitCamera of main
    applied    \* sum of the delta_yaw applied and number of camera calls (history)

vars == <<pc, args, result, stack, stats, calls, buffer, current_color,
          cursor, frame, painted, textures, camera, applied>>

----------------------------------------------------------------------------
(* Arithmetic helpers *)

Abs(n) == IF n < 0 THEN -n ELSE n

Min(a, b) == IF a < b THEN a ELSE b

Max(a, b) == IF a > b THEN a ELSE b

\* f32::clamp
Clamp(v, lo, hi) == IF v < lo THEN lo ELSE IF v > hi THEN hi ELSE v

\* Division truncating toward zero, the rounding of `as u8` / `as u32` and
\* of f32::fract.
TruncDiv(n, d) ==
    IF d > 0
    THEN (IF n >= 0 THEN n \div d ELSE -((-n) \div d))
    ELSE (IF n >= 0 THEN -(n \div (-d)) ELSE (-n) \div (-d))

RECURSIVE Pow2(_)
Pow2(n) == IF n = 0 THEN 1 ELSE 2 * Pow2(n - 1)

RECURSIVE Factorial(_)
Factorial(n) == IF n <= 1 THEN 1 ELSE n * Factorial(n - 1)

None == <<>>

Some(v) == <<v>>

----------------------------------------------------------------------------
(* Bounds of the model *)

\* Largest absolute value of a ray direction component.
MaxDir == 2

DirVals == (-MaxDir)..MaxDir

\* The scale of a ray parameter: a multiple of every non-zero direction
\* component.
TDen == Factorial(MaxDir)

Directions == {d \in DirVals \X DirVals \X DirVals : d /= <<0, 0, 0>>}

----------------------------------------------------------------------------
(* material.rs *)

MaterialTypes == {"Grass", "Dirt", "Stone", "Water", "Lava", "Wood", "Glass",
                  "Metal", "Obsidian", "Sand", "Leaves", "Crystal", "Cactus"}

Mat(diffuse, specular, albedo, ior, tex, type) ==
    [diffuse |-> diffuse, specular |-> specular, albedo |-> albedo,
     refractive_index |-> ior, has_texture |-> tex, material_type |-> type]

grass_top == Mat(<<50, 180, 50>>, 8000, <<850, 150>>, 1000, TRUE, "Grass")

dirt_layer == Mat(<<160, 100, 50>>, 3000, <<900, 100>>, 1000, TRUE, "Dirt")

stone_layer == Mat(<<90, 90, 95>>, 15000, <<700, 300>>, 1000, TRUE, "Stone")

water_surface == Mat(<<30, 110, 220>>, 100000, <<600, 400>>, 1330, TRUE, "Water")

lava_surface == Mat(<<255, 80, 0>>, 15000, <<800, 200>>, 1000, TRUE, "Lava")

obsidian_block == Mat(<<20, 18, 30>>, 50000, <<800, 200>>, 1000, TRUE, "Obsidian")

stone_wall == Mat(<<105, 105, 105>>, 5000, <<900, 100>>, 1000, TRUE, "Stone")

wood_planks == Mat(<<139, 90, 43>>, 10000, <<900, 100>>, 1000, TRUE, "Wood")

leaves_block == Mat(<<60, 160, 70>>, 10000, <<900, 100>>, 1000, TRUE, "Leaves")

wood_block == Mat(<<140, 100, 60>>, 10000, <<900, 100>>, 1000, TRUE, "Wood")

sand_top == Mat(<<235, 220, 170>>, 10000, <<900, 100>>, 1000, TRUE, "Sand")

crystal_block == Mat(<<180, 220, 255>>, 110000, <<200, 800>>, 1450, TRUE, "Crystal")

clear_glass == Mat(<<255, 255, 255>>, 125000, <<100, 900>>, 1500, FALSE, "Glass")

cactus_block == Mat(<<80, 170, 80>>, 5000, <<950, 50>>, 1000, TRUE, "Cactus")

metal_surface == Mat(<<192, 192, 192>>, 100000, <<400, 600>>, 1000, FALSE, "Metal")

AllMaterials == {grass_top, dirt_layer, stone_layer, water_surface, lava_surface,
                 obsidian_block, stone_wall, wood_planks, leaves_block, wood_block,
                 sand_top, crystal_block, clear_glass, cactus_block, metal_surface}

is_emissive(m) == m.material_type = "Lava"

is_transparent(m) == m.material_type \in {"Glass", "Water"}

\* is_reflective with the comparison made inclusive.
is_reflective_inclusive(m) ==
    m.specular >= 50000 \/ m.material_type \in {"Water", "Metal", "Obsidian"}

is_reflective(m) ==
    m.specular > 50000 \/ m.material_type \in {"Water", "Metal", "Obsidian"}

----------------------------------------------------------------------------
(* cube.rs *)

\* Cube::new
Cube(center, size, material) ==
    LET half_size == size \div 2 IN
    [min |-> <<center[1] - half_size, center[2] - half_size, center[3] - half_size>>,
     max |-> <<center[1] + half_size, center[2] + half_size, center[3] + half_size>>,
     material |-> material]

\* f32::INFINITY, as a ray parameter no finite quotient reaches.
INFINITY == 2000000000

NEG_INFINITY == -INFINITY

\* |component| < 1e-6 for a component held as an integer.
NearZero(c) == Abs(c) * 1000000 < 1

\* (box - origin) / direction, scaled by TDen: exact, TDen being a multiple
\* of the direction component.
SlabT(box, origin_c, dir_c) == TruncDiv((box - origin_c) * TDen, dir_c)

\* The test `origin < box_min || origin > box_max` of an axis the ray is
\* parallel to.
OutsideSlabMinOnly(o, lo, hi) == o < lo

OutsideSlab(o, lo, hi) == o < lo \/ o > hi

\* t_near and t_far of one axis.
AxisIntervalUnordered(lo, hi, o, dc) == <<SlabT(lo, o, dc), SlabT(hi, o, dc)>>

AxisInterval(lo, hi, o, dc) ==
    LET t1 == SlabT(lo, o, dc)
        t2 == SlabT(hi, o, dc)
    IN  <<Min(t1, t2), Max(t1, t2)>>

\* The closing selection of Cube::ray_intersect.
SlabResult(t_min, t_max) ==
    IF t_min > 0 THEN Some(t_min)
    ELSE IF t_max > 0 THEN Some(t_max)
    ELSE None

\* The loop `for i in 0..3` of Cube::ray_intersect with its early returns,
\* run over the axes listed in `axes` (1 = x, 2 = y, 3 = z).
RECURSIVE SlabLoop(_, _, _, _, _, _, _)
SlabLoop(lo, hi, o, d, axes, t_min, t_max) ==
    IF axes = <<>> THEN SlabResult(t_min, t_max)
    ELSE LET i == Head(axes) IN
         IF NearZero(d[i])
         THEN IF OutsideSlab(o[i], lo[i], hi[i])
              THEN None
              ELSE SlabLoop(lo, hi, o, d, Tail(axes), t_min, t_max)
         ELSE LET iv == AxisInterval(lo[i], hi[i], o[i], d[i])
                  n_min == Max(t_min, iv[1])
                  n_max == Min(t_max, iv[2])
              IN  IF n_min > n_max
                  THEN None
                  ELSE SlabLoop(lo, hi, o, d, Tail(axes), n_min, n_max)

ray_intersect(cube, ray_origin, ray_direction) ==
    SlabLoop(cube.min, cube.max, ray_origin, ray_direction, <<1, 2, 3>>,
             NEG_INFINITY, INFINITY)

\* origin + direction * t for a scaled t.
PointAt(o, d, t) ==
    <<o[1] + TruncDiv(d[1] * t, TDen),
      o[2] + TruncDiv(d[2] * t, TDen),
      o[3] + TruncDiv(d[3] * t, TDen)>>

\* The loop of get_normal keeping equal components too: the last of the
\* largest axes wins.
RECURSIVE NormalLoopLast(_, _, _, _, _, _)
NormalLoopLast(p, size, i, mnum, mden, normal) ==
    IF i > 3 THEN normal
    ELSE IF Abs(p[i]) * mden >= mnum * size[i]
         THEN NormalLoopLast(p, size, i + 1, Abs(p[i]), size[i],
                             [k \in 1..3 |-> IF k = i
                                             THEN (IF p[i] > 0 THEN 1 ELSE -1)
                                             ELSE 0])
         ELSE NormalLoopLast(p, size, i + 1, mnum, mden, normal)

\* The loop of Cube::get_normal.  p is twice the offset from the centre and
\* size the extent, so that |p[i]| / size[i] is the normalised offset; the
\* running maximum is kept as the fraction mnum / mden.
RECURSIVE NormalLoop(_, _, _, _, _, _)
NormalLoop(p, size, i, mnum, mden, normal) ==
    IF i > 3 THEN normal
    ELSE IF Abs(p[i]) * mden > mnum * size[i]
         THEN NormalLoop(p, size, i + 1, Abs(p[i]), size[i],
                         [k \in 1..3 |-> IF k = i
                                         THEN (IF p[i] > 0 THEN 1 ELSE -1)
                                         ELSE 0])
         ELSE NormalLoop(p, size, i + 1, mnum, mden, normal)

get_normal(cube, point) ==
    LET size == [k \in 1..3 |-> cube.max[k] - cube.min[k]]
        p == [k \in 1..3 |-> 2 * point[k] - (cube.min[k] + cube.max[k])]
    IN  NormalLoop(p, size, 1, 0, 1, <<0, 0, 0>>)

\* The face Cube::get_uv_coordinates maps: 1 = x dominant, 2 = y dominant,
\* 3 = the else branch (z).
UvFace(cube, point) ==
    LET size == [k \in 1..3 |-> cube.max[k] - cube.min[k]]
        p == [k \in 1..3 |-> 2 * point[k] - (cube.min[k] + cube.max[k])]
        \* abs_a > abs_b, cross-multiplied
        Gt(a, b) == Abs(p[a]) * size[b] > Abs(p[b]) * size[a]
    IN  IF Gt(1, 2) /\ Gt(1, 3) THEN 1
        ELSE IF Gt(2, 1) /\ Gt(2, 3) THEN 2
        ELSE 3

\* (local / size).clamp(0.0, 1.0), in thousandths.
UvCoord(cube, point, k) ==
    Clamp(TruncDiv((point[k] - cube.min[k]) * 1000, cube.max[k] - cube.min[k]),
          0, 1000)

get_uv_coordinates(cube, point) ==
    LET face == UvFace(cube, point) IN
    IF face = 1 THEN <<UvCoord(cube, point, 3), 1000 - UvCoord(cube, point, 2)>>
    ELSE IF face = 2 THEN <<UvCoord(cube, point, 1), UvCoord(cube, point, 3)>>
    ELSE <<UvCoord(cube, point, 1), 1000 - UvCoord(cube, point, 2)>>

----------------------------------------------------------------------------
(* main.rs: OptimizedDiorama, the scene generator *)

grid_size == 18

cube_size == 800

center == <<0, 0, 0>>

\* The margin of the bounding box (2.0).
BboxMargin == 2000

spacing == cube_size

offset == (grid_size * spacing) \div 2 - spacing \div 2

CORNER_X == 17

CORNER_Z == 12

ROOF_X0 == 0

ROOF_Z0 == 0

ROOF_W == 6

ROOF_H == 7

ROOF_Y == 7

in_oasis(x, z) ==
    LET grid_back == 17 IN
    (x >= 8 /\ x <= 10) /\ (z >= grid_back - 3 /\ z <= grid_back - 1)

\* The bump with the distance to the corner taken along the axes
\* (|dx| + |dz|) instead of the straight line.
BumpManhattan(x, z) ==
    LET dist2 == 2 * (Abs(x - CORNER_X) + Abs(z - CORNER_Z))
    IN  IF dist2 < 5 THEN 2 ELSE IF dist2 < 11 THEN 1 ELSE 0

\* bump of generate_terrain_heights: dist < 2.5 and dist < 5.5, squared and
\* multiplied by 4.
Bump(x, z) ==
    LET dx == Abs(x - CORNER_X)
        dz == Abs(z - CORNER_Z)
        d2 == 4 * (dx * dx + dz * dz)
    IN  IF d2 < 25 THEN 2 ELSE IF d2 < 121 THEN 1 ELSE 0

\* heights[z][x] of generate_terrain_heights.
TerrainHeight(x, z) ==
    IF x < 6
    THEN (IF x = 0 \/ z = 0 THEN 6
          ELSE IF x = 1 \/ z = 1 THEN 5
          ELSE IF x = 2 \/ z = 2 THEN 4
          ELSE 3)
    ELSE IF x < 12
    THEN (IF in_oasis(x, z) THEN 2 ELSE 3)
    ELSE IF x = 12 \/ x = 13 THEN 3
    ELSE 4 + ((x + 2 * z) % 2) + Bump(x, z)

in_lava_pond_a(x, z) == x >= 2 /\ x <= 4 /\ z >= 2 /\ z <= 4

in_lava_pond_b(x, z) == x >= 1 /\ x <= 3 /\ z >= 4 /\ z <= Min(6, 5)

in_lava_pond_c(x, z, gs) == x >= 2 /\ x <= 4 /\ z >= gs - 4 /\ z <= gs - 2

in_any_lava_pond(x, z, gs) ==
    in_lava_pond_a(x, z) \/ in_lava_pond_b(x, z) \/ in_lava_pond_c(x, z, gs)

determine_material(x, z, y_level, max_height) ==
    IF x < 6
    THEN (IF y_level = 1 THEN lava_surface
          ELSE IF in_any_lava_pond(x, z, 18) /\ y_level = max_height
               THEN lava_surface
          ELSE IF (x <= 2 \/ z <= 2)
                  /\ ((x + 2 * z + y_level) % 5 = 0 \/ (3 * x + z) % 7 = 0)
               THEN obsidian_block
          ELSE stone_layer)
    ELSE IF x >= 6 /\ x < 12
    THEN (IF (in_oasis(x, z) /\ y_level = 1) \/ y_level = 2 THEN water_surface
          ELSE IF y_level = max_height THEN sand_top
          ELSE stone_layer)
    ELSE (IF y_level = max_height THEN grass_top
          ELSE IF y_level >= max_height - 1 THEN dirt_layer
          ELSE stone_layer)

\* The placement test with the oasis capped below level 2: level 2 is
\* refused as well.
should_place_cube_below_two(x, z, y_level, max_height, gs) ==
    IF x < 6 THEN TRUE
    ELSE IF x >= 6 /\ x < 12 /\ in_oasis(x, z)
         THEN (IF y_level = 1 THEN TRUE
               ELSE IF y_level >= 2 THEN FALSE
               ELSE TRUE)
    ELSE TRUE

should_place_cube(x, z, y_level, max_height, gs) ==
    IF x < 6 THEN TRUE
    ELSE IF x >= 6 /\ x < 12 /\ in_oasis(x, z)
         THEN (IF y_level = 1 \/ y_level = 2 THEN TRUE
               ELSE IF y_level >= 2 THEN FALSE
               ELSE TRUE)
    ELSE TRUE

\* pos of the cube of grid cell (x, z) at level y.
GridPos(x, y, z) ==
    <<center[1] + x * spacing - offset,
      center[2] + y * spacing,
      center[3] + z * spacing - offset>>

\* The cubes the y_level loop pushes for one column, in level order.
ColumnCubes(x, z) ==
    LET height == TerrainHeight(x, z)
        all == [l \in 1..(height + 1) |->
                  [level |-> l - 1,
                   cube |-> Cube(GridPos(x, l - 1, z), cube_size,
                                 determine_material(x, z, l - 1, height))]]
        kept == SelectSeq(all, LAMBDA e :
                    should_place_cube(x, z, e.level, height, grid_size))
    IN  [k \in 1..Len(kept) |-> kept[k].cube]

\* The terrain loop `for z { for x { for y_level` over the cells numbered
\* lo..hi (cell i is x = i % grid_size, z = i / grid_size), in order; the
\* range is halved to keep the evaluation shallow.
RECURSIVE TerrainRange(_, _)
TerrainRange(lo, hi) ==
    IF lo > hi THEN <<>>
    ELSE IF lo = hi THEN ColumnCubes(lo % grid_size, lo \div grid_size)
    ELSE LET mid == (lo + hi) \div 2 IN
         TerrainRange(lo, mid) \o TerrainRange(mid + 1, hi)

TerrainCubes == TerrainRange(0, grid_size * grid_size - 1)

\* Every pos the terrain loop visits (placed or not): what min_pos and
\* max_pos range over.
TerrainPositions ==
    {GridPos(c[1], c[2], c[3]) :
        c \in {c \in (0..(grid_size - 1)) \X (0..7) \X (0..(grid_size - 1)) :
                 c[2] <= TerrainHeight(c[1], c[3])}}

SetMin(S) == CHOOSE m \in S : \A n \in S : m <= n

SetMax(S) == CHOOSE m \in S : \A n \in S : m >= n

min_pos == [k \in 1..3 |-> SetMin({p[k] : p \in TerrainPositions})]

max_pos == [k \in 1..3 |-> SetMax({p[k] : p \in TerrainPositions})]

\* The tree with the whole 3x3x3 block of leaves, corners included.
TreeCubesFull ==
    LET tx == 14
        tz == 13
        base_y == 5
        trunk_h == 4
        top_y == base_y + trunk_h
    IN  [i \in 1..trunk_h |->
            Cube(GridPos(tx, base_y + i - 1, tz), cube_size, wood_block)]
        \o [n \in 1..27 |->
               Cube(GridPos(tx + (((n - 1) \div 3) % 3) - 1, top_y + ((n - 1) % 3),
                            tz + (((n - 1) \div 9) % 3) - 1),
                    cube_size, leaves_block)]

\* place_tree
TreeCubes ==
    LET tx == 14
        tz == 13
        base_y == 5
        trunk_h == 4
        top_y == base_y + trunk_h
        trunk == [i \in 1..trunk_h |->
                    Cube(GridPos(tx, base_y + i - 1, tz), cube_size, wood_block)]
        \* the loops dz, dx, dy, each over three values
        cell(n) == [dz |-> ((n \div 9) % 3) - 1, dx |-> ((n \div 3) % 3) - 1,
                    dy |-> n % 3]
        all == [n \in 1..27 |-> cell(n - 1)]
        kept == SelectSeq(all, LAMBDA c : Abs(c.dx) + c.dy + Abs(c.dz) <= 3)
    IN  trunk \o [k \in 1..Len(kept) |->
                    Cube(GridPos(tx + kept[k].dx, top_y + kept[k].dy,
                                 tz + kept[k].dz), cube_size, leaves_block)]

\* place_crystal_details
CrystalCubes ==
    LET cells == <<<<2, 8>>, <<3, 11>>>> IN
    [n \in 1..4 |->
        Cube(GridPos(cells[((n - 1) \div 2) + 1][1], 3 + ((n - 1) % 2),
                     cells[((n - 1) \div 2) + 1][2]), cube_size, crystal_block)]

\* place_overhang_roof: x outer, z inner
RoofCubes ==
    [n \in 1..(ROOF_W * ROOF_H) |->
        Cube(GridPos(ROOF_X0 + ((n - 1) \div ROOF_H), ROOF_Y,
                     ROOF_Z0 + ((n - 1) % ROOF_H)), cube_size, stone_layer)]

\* place_cactus
CactusCubes ==
    LET cx == 9
        cz == 8
        base_y == 4
    IN  [n \in 1..2 |-> Cube(GridPos(cx, base_y + n - 1, cz), cube_size,
                             cactus_block)]

\* OptimizedDiorama::new: the cube list
DioramaCubes ==
    TerrainCubes \o TreeCubes \o CrystalCubes \o RoofCubes \o CactusCubes

bounding_box_min == [k \in 1..3 |-> min_pos[k] - BboxMargin]

bounding_box_max == [k \in 1..3 |-> max_pos[k] + BboxMargin]

\* OptimizedDiorama::ray_intersects_bbox
RECURSIVE BboxLoop(_, _, _, _, _)
BboxLoop(o, d, i, t_min, t_max) ==
    IF i > 3 THEN t_max > 0
    ELSE IF NearZero(d[i])
         THEN IF o[i] < bounding_box_min[i] \/ o[i] > bounding_box_max[i]
              THEN FALSE
              ELSE BboxLoop(o, d, i + 1, t_min, t_max)
         ELSE LET t1 == SlabT(bounding_box_min[i], o[i], d[i])
                  t2 == SlabT(bounding_box_max[i], o[i], d[i])
                  n_min == Max(t_min, Min(t1, t2))
                  n_max == Min(t_max, Max(t1, t2))
              IN  IF n_min > n_max
                  THEN FALSE
                  ELSE BboxLoop(o, d, i + 1, n_min, n_max)

ray_intersects_bbox(ray_origin, ray_direction) ==
    BboxLoop(ray_origin, ray_direction, 1, NEG_INFINITY, INFINITY)

----------------------------------------------------------------------------
(* Values the variables of an operation not under test keep *)

ZeroStats == [rays_cast |-> 0, hits |-> 0, misses |-> 0, objects_tested |-> 0]

IdleCall == args = <<>> /\ result = <<>>

IdleCast == stack = <<>> /\ stats = ZeroStats /\ calls = 0

IdleBuffer ==
    /\ buffer = <<>>
    /\ current_color = <<255, 255, 255>>
    /\ cursor = <<0, 0>>
    /\ frame = 0
    /\ painted = <<>>

IdleFrame == IdleBuffer /\ camera = <<>> /\ applied = <<>>

IdleAssets == textures = <<>>

castVars == <<stack, stats, calls>>

bufferVars == <<buffer, current_color, cursor, frame, painted>>

frameVars == <<bufferVars, camera, applied>>

----------------------------------------------------------------------------
(* Cube::ray_intersect and Cube::get_normal on single cubes *)

\* The unit cube centred at the origin and one cube of the scene (the
\* canopy cell above the trunk).
TestCubes == {Cube(<<0, 0, 0>>, 1000, stone_layer),
              Cube(GridPos(14, 9, 13), cube_size, leaves_block)}

\* Ray origins relative to the cube's centre: far outside, on a face of
\* either test cube, inside.
OriginOffsets == {-5000, -500, 0, 400, 5000}

CubeCenter(c) == [k \in 1..3 |-> (c.min[k] + c.max[k]) \div 2]

CubeArgs ==
    {[cube |-> c,
      origin |-> [k \in 1..3 |-> CubeCenter(c)[k] + off[k]],
      direction |-> d] :
        c \in TestCubes,
        off \in OriginOffsets \X OriginOffsets \X OriginOffsets,
        d \in Directions}

InitCube ==
    /\ pc = "cube_call"
    /\ args \in CubeArgs
    /\ result = <<>>
    /\ IdleCast /\ IdleFrame /\ IdleAssets

\* One call of ray_intersect, followed at a hit by get_normal at the hit
\* point, as cast_ray_optimized_recursive does.
CubeRayIntersect ==
    /\ pc = "cube_call"
    /\ LET hit == ray_intersect(args.cube, args.origin, args.direction) IN
       result' = [hit |-> hit,
                  normal |-> IF hit = None THEN <<0, 0, 0>>
                             ELSE get_normal(args.cube,
                                      PointAt(args.origin, args.direction, hit[1]))]
    /\ pc' = "cube_done"
    /\ UNCHANGED <<args, castVars, frameVars, textures>>

NextCube == CubeRayIntersect

SpecCube == InitCube /\ [][NextCube]_vars

\* The slab method stated over a set of axes: the interval of an axis runs
\* from the slab face the ray meets first to the one it meets last.
SlabReference(cube, o, d, Axes) ==
    LET moving == {i \in Axes : d[i] /= 0}
        near(i) == IF d[i] > 0 THEN SlabT(cube.min[i], o[i], d[i])
                   ELSE SlabT(cube.max[i], o[i], d[i])
        far(i) == IF d[i] > 0 THEN SlabT(cube.max[i], o[i], d[i])
                  ELSE SlabT(cube.min[i], o[i], d[i])
        t_min == SetMax({NEG_INFINITY} \cup {near(i) : i \in moving})
        t_max == SetMin({INFINITY} \cup {far(i) : i \in moving})
        beside == \E i \in Axes \ moving :
                      o[i] < cube.min[i] \/ o[i] > cube.max[i]
    IN  IF beside \/ t_min > t_max THEN None
        ELSE IF t_min > 0 THEN Some(t_min)
        ELSE IF t_max > 0 THEN Some(t_max)
        ELSE None

UnitCubeExample ==
    [cube |-> Cube(<<0, 0, 0>>, 1000, stone_layer),
     origin |-> <<0, 0, 5000>>, direction |-> <<0, 0, -1>>]

\* C5: Cube::ray_intersect returns what the slab method defines (the
\* intersection of the per-axis intervals of the moving axes, t_min when
\* positive, else t_max when positive, else none), and for the unit cube
\* and the ray from (0,0,5) toward (0,0,-1) it returns 4.5 with normal
\* (0,0,1).
C5_SlabReference ==
    pc = "cube_done" =>
        /\ result.hit = SlabReference(args.cube, args.origin, args.direction,
                                      {1, 2, 3})
        /\ args = UnitCubeExample =>
              /\ result.hit = Some(4500 * TDen)
              /\ result.normal = <<0, 0, 1>>

C5_Witness ==
    /\ pc = "cube_done"
    /\ args = UnitCubeExample
    /\ result.hit = Some(4500 * TDen)

\* The origin-inside case of the selection: t_min <= 0 < t_max.
C5_WitnessInside ==
    /\ pc = "cube_done"
    /\ args.origin = CubeCenter(args.cube)
    /\ result.hit /= None

AxesWithout(i) == SelectSeq(<<1, 2, 3>>, LAMBDA k : k /= i)

\* C6: with a direction component exactly 0, an origin outside that axis's
\* slab gives none, and an origin inside it (boundary included) gives the
\* result of the slab test over the other two axes.
C6_ParallelRay ==
    pc = "cube_done" =>
        \A i \in 1..3 :
            args.direction[i] = 0 =>
                IF \/ args.origin[i] < args.cube.min[i]
                   \/ args.origin[i] > args.cube.max[i]
                THEN result.hit = None
                ELSE result.hit =
                        SlabLoop(args.cube.min, args.cube.max, args.origin,
                                 args.direction, AxesWithout(i),
                                 NEG_INFINITY, INFINITY)

\* A ray parallel to an axis, its origin on the boundary of that axis's
\* slab, that hits the cube.
C6_Witness ==
    /\ pc = "cube_done"
    /\ \E i \in 1..3 :
          /\ args.direction[i] = 0
          /\ args.origin[i] = args.cube.max[i]
    /\ result.hit /= None

----------------------------------------------------------------------------
(* OptimizedDiorama::ray_intersect_fast on the generated scene *)

\* The 0.001 self-intersection threshold and the 0.1 early-exit distance of
\* ray_intersect_fast, as scaled ray parameters.
HitEpsilon == 1

BreakDistance == 100

\* One iteration of the loop of ray_intersect_fast, for cube i.  st is
\* <<closest_index, closest_distance, left>>, left being TRUE once the
\* loop was left by its `break`.
FastStep(o, d, i, st) ==
    IF st[3] THEN st
    ELSE LET hit == ray_intersect(DioramaCubes[i], o, d) IN
         IF hit /= None /\ hit[1] > HitEpsilon * TDen /\ hit[1] < st[2]
         THEN <<Some(i), hit[1], hit[1] < BreakDistance * TDen>>
         ELSE st

\* The iterations for cubes lo..hi in order (the range is halved to keep
\* the evaluation shallow; the iterations run left to right).
RECURSIVE FastLoop(_, _, _, _, _)
FastLoop(o, d, lo, hi, st) ==
    IF st[3] \/ lo > hi THEN st
    ELSE IF lo = hi THEN FastStep(o, d, lo, st)
    ELSE LET mid == (lo + hi) \div 2 IN
         FastLoop(o, d, mid + 1, hi, FastLoop(o, d, lo, mid, st))

\* Some(<<index, distance>>) with the index counted from 1, or None.
ray_intersect_fast(ray_origin, ray_direction) ==
    IF ~ray_intersects_bbox(ray_origin, ray_direction) THEN None
    ELSE LET r == FastLoop(ray_origin, ray_direction, 1, Len(DioramaCubes),
                           <<None, INFINITY, FALSE>>)
         IN  IF r[1] = None THEN None ELSE Some(<<r[1][1], r[2]>>)

\* The cubes a ray intersects, whatever the bounding box says.
CubesHit(o, d) ==
    {i \in 1..Len(DioramaCubes) : ray_intersect(DioramaCubes[i], o, d) /= None}

\* ray_intersect_shadow_fast: TRUE at the first cube of even array index
\* (odd position here, positions counting from 1) met beyond 0.001 and
\* before max_distance.
ray_intersect_shadow_fast(o, d, max_distance) ==
    \E i \in 1..Len(DioramaCubes) :
        /\ (i - 1) % 2 = 0
        /\ LET hit == ray_intersect(DioramaCubes[i], o, d) IN
           hit /= None /\ hit[1] > HitEpsilon * TDen /\ hit[1] < max_distance

\* Whether the shadow ray is cast for the light at position i of the
\* lights (1 is the first): `i == 0 && material_type != Water`.  The
\* variant casts it for every light.
ShadowTestedAllLights(i, m) == m.material_type /= "Water"

ShadowTested(i, m) == i = 1 /\ m.material_type /= "Water"

\* in_shadow of the light loop for light i on a surface of material m, the
\* shadow ray being o + t*d and the light at ray parameter light_distance.
InShadow(i, m, o, d, light_distance) ==
    ShadowTested(i, m) /\ ray_intersect_shadow_fast(o, d, light_distance)

\* Distances to the light, as ray parameters scaled by TDen, and the
\* surfaces the light loop is run for.
LightDistances == {3000 * TDen, 10000 * TDen}

ShadowSurfaces == {stone_wall, water_surface}

\* The floor of main: Plane::new((0, -2, 0), (0, 1, 0), stone_wall), the
\* normal a unit vector in thousandths.
Floor == [point |-> <<0, -2000, 0>>, normal |-> <<0, 1000, 0>>,
          material |-> stone_wall]

\* Plane::ray_intersect: Some(t), t scaled by TDen as for the cubes.
Plane_ray_intersect(plane, o, d) ==
    LET n == plane.normal
        denom == n[1] * d[1] + n[2] * d[2] + n[3] * d[3]
        num == (plane.point[1] - o[1]) * n[1] + (plane.point[2] - o[2]) * n[2]
               + (plane.point[3] - o[3]) * n[3]
    IN  IF denom = 0 THEN None
        ELSE LET t == TruncDiv(num * TDen, denom) IN
             IF t > HitEpsilon * TDen THEN Some(t) ELSE None

\* The surface and statistics a call with depth > 0 settles on, from what
\* ray_intersect_fast and floor.ray_intersect return: hit_object is 1 for
\* a cube, 5 for the floor and 0 for none.  Here the floor replaces the
\* cube whenever it is hit at all.
SurfaceFloorFirst(fast, floor) ==
    LET cube == fast /= None /\ fast[1][2] > HitEpsilon * TDen
        plane == floor /= None /\ floor[1] > HitEpsilon * TDen
    IN  [hit_object |-> IF plane THEN 5 ELSE IF cube THEN 1 ELSE 0,
         closest_distance |-> IF plane THEN floor[1]
                              ELSE IF cube THEN fast[1][2] ELSE INFINITY,
         hits |-> (IF cube THEN 1 ELSE 0) + (IF plane THEN 1 ELSE 0)]

Surface(fast, floor) ==
    LET cube == fast /= None /\ fast[1][2] > HitEpsilon * TDen
                /\ fast[1][2] < INFINITY
        d1 == IF cube THEN fast[1][2] ELSE INFINITY
        plane == floor /= None /\ floor[1] > HitEpsilon * TDen /\ floor[1] < d1
    IN  [hit_object |-> IF plane THEN 5 ELSE IF cube THEN 1 ELSE 0,
         closest_distance |-> IF plane THEN floor[1] ELSE d1,
         hits |-> (IF cube THEN 1 ELSE 0) + (IF plane THEN 1 ELSE 0)]

SceneOrigins == {-12000, 400} \X {-3000, 2000, 8000} \X {-12000, 3600}

\* An origin 0.05 west of the terrain's face and 0.08 north of the plane
\* between two of its columns.
EdgeOrigins == {<<-7250, 1000, -6320>>}

SceneArgs == {[origin |-> o, direction |-> d] :
                 o \in SceneOrigins \cup EdgeOrigins, d \in Directions}

InitScene ==
    /\ pc = "scene_call"
    /\ args \in SceneArgs
    /\ result = <<>>
    /\ IdleCast /\ IdleFrame /\ IdleAssets

SceneRayIntersectFast ==
    /\ pc = "scene_call"
    /\ LET fast == ray_intersect_fast(args.origin, args.direction)
           floor == Plane_ray_intersect(Floor, args.origin, args.direction)
       IN  result' = [bbox |-> ray_intersects_bbox(args.origin, args.direction),
                      fast |-> fast,
                      cubes |-> CubesHit(args.origin, args.direction),
                      floor |-> floor,
                      surface |-> Surface(fast, floor),
                      in_shadow |->
                          [i \in 1..2, m \in ShadowSurfaces, l \in LightDistances |->
                              InShadow(i, m, args.origin, args.direction, l)]]
    /\ pc' = "scene_done"
    /\ UNCHANGED <<args, castVars, frameVars, textures>>

NextScene == SceneRayIntersectFast

SpecScene == InitScene /\ [][NextScene]_vars

\* C3: a ray the bounding box rejects intersects no cube of the scene.
C3_BboxSound ==
    pc = "scene_done" => (~result.bbox => result.cubes = {})

----------------------------------------------------------------------------
(* main.rs: cast_ray_optimized_recursive as a call stack *)

MAX_DEPTH == 5

\* The materials a ray can meet: one cube material of each kind the
\* recursion distinguishes (opaque, reflective, reflective and transparent),
\* all of them materials of the generated scene, and the floor's material.
SceneMaterials == {DioramaCubes[i].material : i \in 1..Len(DioramaCubes)}

CubeHitMaterials == {stone_layer, obsidian_block, water_surface} \cap SceneMaterials

FloorMaterial == stone_wall

\* What the intersection phase of one call finds: cube is the material of
\* the nearest cube (None: no cube beyond 0.001), floor says whether the
\* floor plane is hit and, if so, whether nearer than that cube.
HitOutcomes ==
    {[cube |-> c, floor |-> f] :
        c \in {None} \cup {Some(m) : m \in CubeHitMaterials},
        f \in {"none", "nearer", "farther"}}
    \ {[cube |-> None, floor |-> "farther"]}

Frame(depth) == [depth |-> depth, stage |-> "enter", material |-> None,
                 children |-> 0]

Top == stack[Len(stack)]

\* `return`: the frame is popped; the caller, if any, goes on.
Return(stk) == SubSeq(stk, 1, Len(stk) - 1)

\* The depth passed to a recursive call.
ChildDepthSame(depth) == depth

ChildDepth(depth) == depth - 1

\* A recursive call from the top frame, left at `stage`.
Call(stk, stage) ==
    LET top == stk[Len(stk)] IN
    Append([stk EXCEPT ![Len(stk)] =
                [top EXCEPT !.stage = stage, !.children = @ + 1]],
           Frame(ChildDepth(top.depth)))

\* The statistics after a call with depth == 0: the early return comes
\* before `stats.rays_cast += 1`.
StatsAtDepthZeroCounted(s) == [s EXCEPT !.rays_cast = @ + 1]

StatsAtDepthZero(s) == s

\* The statistics after the intersection phase of a call with depth > 0.
StatsAfter(s, o) ==
    LET cube_hit == o.cube /= None
        floor_hit == o.floor = "nearer" \/ (o.floor = "farther" /\ ~cube_hit)
        h == (IF cube_hit THEN 1 ELSE 0) + (IF floor_hit THEN 1 ELSE 0)
    IN  [s EXCEPT !.rays_cast = @ + 1,
                  !.hits = @ + h,
                  !.misses = @ + (IF h = 0 THEN 1 ELSE 0)]

\* hit_material after the intersection phase.
HitMaterial(o) ==
    IF o.floor = "nearer" \/ (o.floor = "farther" /\ o.cube = None)
    THEN Some(FloorMaterial)
    ELSE o.cube

InitCast ==
    /\ pc = "cast"
    /\ args \in [depth : 0..MAX_DEPTH]
    /\ result = <<>>
    /\ stack = <<Frame(args.depth)>>
    /\ stats = ZeroStats
    /\ calls = 0
    /\ IdleFrame /\ IdleAssets

\* The stack and pc after the top frame returns.
Returned ==
    /\ stack' = Return(stack)
    /\ pc' = IF Len(stack) = 1 THEN "cast_done" ELSE "cast"
    /\ calls' = calls

\* The refraction step of the top frame, whose material is m: a recursive
\* call unless the material is opaque or refract() finds total internal
\* reflection (tir), then the blend and the return.
RefractOrReturn(stk, m, tir) ==
    IF is_transparent(m) /\ ~tir
    THEN /\ stack' = Call(stk, "refract")
         /\ calls' = calls + 1
         /\ pc' = "cast"
    ELSE /\ stack' = Return(stk)
         /\ calls' = calls
         /\ pc' = IF Len(stk) = 1 THEN "cast_done" ELSE "cast"

\* A call with depth == 0 that runs the intersection phase before it
\* returns.
CastDepthZeroTested ==
    /\ pc = "cast" /\ Top.stage = "enter" /\ Top.depth = 0
    /\ stats' = StatsAfter(stats, [cube |-> None, floor |-> "none"])
    /\ Returned
    /\ UNCHANGED <<args, result, frameVars, textures>>

\* depth == 0: the sky colour, nothing tested, nothing counted.
CastDepthZero ==
    /\ pc = "cast" /\ Top.stage = "enter" /\ Top.depth = 0
    /\ stats' = StatsAtDepthZero(stats)
    /\ Returned
    /\ UNCHANGED <<args, result, frameVars, textures>>

\* depth > 0, neither a cube nor the floor is hit: the sky colour.
CastMiss ==
    /\ pc = "cast" /\ Top.stage = "enter" /\ Top.depth > 0
    /\ stats' = StatsAfter(stats, [cube |-> None, floor |-> "none"])
    /\ Returned
    /\ UNCHANGED <<args, result, frameVars, textures>>

\* depth > 0 and a hit: shading, then the reflection call if the material
\* is reflective, else the refraction step.
CastHit ==
    /\ pc = "cast" /\ Top.stage = "enter" /\ Top.depth > 0
    /\ \E o \in HitOutcomes, tir \in BOOLEAN :
          /\ HitMaterial(o) /= None
          /\ stats' = StatsAfter(stats, o)
          /\ LET m == HitMaterial(o)[1]
                 stk == [stack EXCEPT ![Len(stack)].material = Some(m)]
             IN  IF is_reflective(m)
                 THEN /\ stack' = Call(stk, "reflect")
                      /\ calls' = calls + 1
                      /\ pc' = "cast"
                 ELSE RefractOrReturn(stk, m, tir)
    /\ UNCHANGED <<args, result, frameVars, textures>>

\* The reflection call has returned.
CastAfterReflect ==
    /\ pc = "cast" /\ Top.stage = "reflect"
    /\ \E tir \in BOOLEAN : RefractOrReturn(stack, Top.material[1], tir)
    /\ UNCHANGED <<args, result, stats, frameVars, textures>>

\* The refraction call has returned: the blend and the return.
CastAfterRefract ==
    /\ pc = "cast" /\ Top.stage = "refract"
    /\ Returned
    /\ UNCHANGED <<args, result, stats, frameVars, textures>>

NextCast ==
    \/ CastDepthZero
    \/ CastMiss
    \/ CastHit
    \/ CastAfterReflect
    \/ CastAfterRefract

SpecCast == InitCast /\ [][NextCast]_vars

\* Every call that has begun runs on: the code has no suspension point.
FairSpecCast == SpecCast /\ WF_vars(NextCast)

\* C1 as claimed: one top-level call at depth D makes at most 2^D
\* recursive sub-calls.
C1_AtMostPow2Calls == calls <= Pow2(args.depth)

\* C1 as amended: every top-level call at depth D returns, having made at
\* most 2^(D+1) - 2 recursive sub-calls, never nested deeper than D.
C1_Terminates ==
    /\ [](calls <= Pow2(args.depth + 1) - 2 /\ Len(stack) <= args.depth + 1)
    /\ <>(pc = "cast_done")

\* A call at MAX_DEPTH that met Water at every level: the bound is reached.
C1_Witness ==
    /\ pc = "cast_done"
    /\ args.depth = MAX_DEPTH
    /\ calls = Pow2(MAX_DEPTH + 1) - 2

\* C2: for a primary ray cast at MAX_DEPTH, every call makes at most two
\* recursive calls, no call is nested deeper than MAX_DEPTH levels below
\* the primary one, and at most 2^MAX_DEPTH rays are counted.
C2_RaysPerPixel ==
    args.depth = MAX_DEPTH =>
        /\ \A i \in 1..Len(stack) :
              /\ stack[i].children <= 2
              /\ stack[i].depth = MAX_DEPTH - (i - 1)
              /\ stack[i].depth >= 0
        /\ Len(stack) <= MAX_DEPTH + 1
        /\ stats.rays_cast <= Pow2(MAX_DEPTH)

\* The fullest tree: every call with depth > 0 hit Water and made both
\* calls, 2^MAX_DEPTH - 1 rays counted.
C2_Witness ==
    /\ pc = "cast_done"
    /\ args.depth = MAX_DEPTH
    /\ stats.rays_cast = Pow2(MAX_DEPTH) - 1

----------------------------------------------------------------------------
(* main.rs: the shading and blending of one call of
   cast_ray_optimized_recursive.  Colours are <<r, g, b>>; a sum of light
   is held in thousandths of a channel unit. *)

\* `x as u8` for an f32 x given in thousandths: truncated and saturated.
U8Unsaturated(x) == TruncDiv(x, 1000)

U8(x) == Clamp(TruncDiv(x, 1000), 0, 255)

\* Color::from_vec3 of a vector given in thousandths.
from_vec3(v) == <<U8(v[1]), U8(v[2]), U8(v[3])>>

\* ColorVec3::clamp: min(255) on every u8 channel.
ColorClamp(c) == <<Min(c[1], 255), Min(c[2], 255), Min(c[3], 255)>>

\* x^5 for x in thousandths.
Pow5(x) ==
    LET x2 == TruncDiv(x * x, 1000)
        x4 == TruncDiv(x2 * x2, 1000)
    IN  TruncDiv(x4 * x, 1000)

\* fresnel(incident, normal, ior) for cosi = dot(incident, normal); both
\* branches of the code compute the same expression of |cosi|.
fresnel(dot_in, ior) ==
    LET cosi == Clamp(dot_in, -1000, 1000)
        cosi_abs == IF cosi > 0 THEN cosi ELSE -cosi
        q == TruncDiv((ior - 1000) * 1000, ior + 1000)
        r0 == TruncDiv(q * q, 1000)
    IN  r0 + TruncDiv((1000 - r0) * Pow5(1000 - cosi_abs), 1000)

\* kr as used in the blend.
Kr(dot_in, ior) == Clamp(fresnel(dot_in, ior), 0, 1000)

ambient_strength(m) ==
    CASE m.material_type = "Grass" -> 500
      [] m.material_type = "Stone" -> 250
      [] m.material_type = "Dirt" -> 350
      [] m.material_type = "Water" -> 150
      [] m.material_type = "Lava" -> 800
      [] m.material_type = "Sand" -> 450
      [] m.material_type = "Leaves" -> 550
      [] m.material_type = "Obsidian" -> 200
      [] OTHER -> 300

surface_multiplier(m) ==
    CASE m.material_type = "Grass" -> 1400
      [] m.material_type = "Stone" -> 800
      [] m.material_type = "Dirt" -> 1000
      [] m.material_type = "Water" -> 2000
      [] m.material_type = "Lava" -> 300
      [] m.material_type = "Sand" -> 1200
      [] m.material_type = "Leaves" -> 1600
      [] m.material_type = "Obsidian" -> 1100
      [] OTHER -> 1000

emission_intensity(m) == IF m.material_type = "Lava" THEN 400 ELSE 0

emission_color(m) == IF m.material_type = "Lava" THEN <<255, 150, 50>>
                     ELSE <<0, 0, 0>>

\* The lights of main.
Lights == <<[position |-> <<-4000, 8000, -2000>>, color |-> <<255, 220, 180>>,
             intensity |-> 1100],
            [position |-> <<6000, 6000, 3000>>, color |-> <<180, 200, 255>>,
             intensity |-> 700]>>

\* 1 / (1 + 0.015 d + 0.0008 d^2), in thousandths, d in thousandths.
Attenuation(d) ==
    1000000000 \div (1000000 + 15 * d + (d * d) \div 1250)

\* What one light adds to the sum for channel ch: nothing when shadowed.
\* diff is dot(normal, light_dir), dist the distance to the light.
LightTerm(m, base_color, i, ch, diff, dist, in_shadow) ==
    IF in_shadow THEN 0
    ELSE LET d1 == TruncDiv(Max(diff, 0) * Lights[i].intensity, 1000)
             d2 == TruncDiv(d1 * Attenuation(dist), 1000)
             light_contribution == TruncDiv(d2 * surface_multiplier(m), 1000)
         IN  TruncDiv(base_color[ch] * Lights[i].color[ch] * light_contribution,
                      255)

\* total_r / total_g / total_b after the light loop.  lit[i] holds the
\* geometry of light i as seen from the hit point; the shadow test is made
\* for the first light only and never for Water.
ShadedTotal(m, base_color, lit, ch) ==
    LET ambient == base_color[ch] * ambient_strength(m)
        emissive == IF is_emissive(m)
                    THEN emission_color(m)[ch] * emission_intensity(m) * 2
                    ELSE 0
        shadowed(i) == ShadowTested(i, m) /\ lit[i].blocked
    IN  ambient + emissive
        + LightTerm(m, base_color, 1, ch, lit[1].diff, lit[1].dist, shadowed(1))
        + LightTerm(m, base_color, 2, ch, lit[2].diff, lit[2].dist, shadowed(2))

\* final_color before the blend: total.min(255.0) as u8.
ShadedColor(m, base_color, lit) ==
    [ch \in 1..3 |-> U8(Min(ShadedTotal(m, base_color, lit, ch), 255000))]

\* The colour a call returns at a hit, from the shaded colour and the
\* colours of the two recursive calls (black when no call was made).
Blend(m, shaded, reflect_color, refract_color, dot_in) ==
    IF is_transparent(m) \/ is_reflective(m)
    THEN LET kr == Kr(dot_in, m.refractive_index) IN
         IF is_transparent(m)
         THEN LET t == m.albedo[2] IN
              ColorClamp(from_vec3(
                  [ch \in 1..3 |->
                      TruncDiv(shaded[ch] * 1000 * (1000 - t)
                               + reflect_color[ch] * kr * 1000
                               + refract_color[ch] * (1000 - kr) * t, 1000)]))
         ELSE ColorClamp(from_vec3(
                  [ch \in 1..3 |-> shaded[ch] * (1000 - kr)
                                   + reflect_color[ch] * kr]))
    ELSE ColorClamp(shaded)

\* Skybox::make_vertical_gradient: the colour of row y of a size x size face.
GradientRow(size, top, bottom, y) ==
    [ch \in 1..3 |->
        LET t == TruncDiv(y * 1000000, size - 1) IN
        U8(TruncDiv(top[ch] * (1000000 - t) + bottom[ch] * t, 1000))]

SkyFaceSize == 256

\* (top, bottom) of the six faces of create_procedural_sky.
SkyFaces == {<<<<60, 130, 255>>, <<170, 210, 255>>>>,
             <<<<80, 150, 255>>, <<180, 220, 255>>>>,
             <<<<70, 140, 255>>, <<185, 220, 255>>>>}

\* sample_sky without a skybox, for a direction with y component dir_y.
GradientSky(dir_y) ==
    IF dir_y > 100
    THEN LET t == Clamp(TruncDiv((dir_y - 100) * 1000, 900), 0, 1000) IN
         <<U8(100000 + t * 80), U8(180000 + t * 50), 255>>
    ELSE <<120, 160, 200>>

----------------------------------------------------------------------------
(* The colour returned by one call: shading and blend at a hit, sky at a
   miss, over materials with arbitrary weights. *)

\* Transmission weights and refractive indices tried beside the fifteen
\* materials of material.rs.
TransmitWeights == {0, 1000, 1500}

RefractiveIndices == {500, 2500}

ShadeMaterials ==
    AllMaterials \cup
    {[m EXCEPT !.albedo = <<m.albedo[1], t>>, !.refractive_index = ior] :
        m \in {water_surface, clear_glass, metal_surface},
        t \in TransmitWeights, ior \in RefractiveIndices}

\* What the hit point sees of one light.
LightGeometry == [diff : {-500, 1000}, dist : {1000, 12000}, blocked : BOOLEAN]

LitCases == {<<a, b>> : a \in LightGeometry,
                        b \in {g \in LightGeometry : ~g.blocked}}

ChildColors == {<<0, 0, 0>>, <<255, 255, 255>>}

IncidenceCosines == {-1500, -300, 0, 700}

SkyRows == {0, 127, SkyFaceSize - 1}

HitArgs ==
    {[kind |-> "hit", material |-> m, hit_object |-> 1, hit_cube |-> TRUE,
      texel |-> b, lit |-> l,
      reflect_color |-> rc, refract_color |-> fc, dot_in |-> c] :
        m \in ShadeMaterials, b \in {<<0, 0, 0>>, <<255, 255, 255>>},
        l \in LitCases, rc \in ChildColors, fc \in ChildColors,
        c \in IncidenceCosines}
    \cup
    {[kind |-> "hit", material |-> m, hit_object |-> 5, hit_cube |-> hc,
      texel |-> <<255, 255, 255>>, lit |-> l,
      reflect_color |-> <<0, 0, 0>>, refract_color |-> <<0, 0, 0>>,
      dot_in |-> -300] : m \in AllMaterials, hc \in BOOLEAN, l \in LitCases}

MissArgs ==
    {[kind |-> "miss", skybox |-> Some(f), row |-> y, dir_y |-> 0] :
        f \in SkyFaces, y \in SkyRows}
    \cup
    {[kind |-> "miss", skybox |-> None, row |-> 0, dir_y |-> dy] :
        dy \in {-1000, 100, 101, 550, 1000}}

InitShade ==
    /\ pc = "shade_call"
    /\ args \in HitArgs \cup MissArgs
    /\ result = <<>>
    /\ IdleCast /\ IdleFrame /\ IdleAssets

\* base_color of a hit: the sample of the texture of the material's tag at
\* the cube's UV (texel) when the surface is a cube and the material has a
\* texture, Glass and Metal excepted; material.diffuse otherwise.  hit_object
\* is 1 for a cube and 5 for the floor; hit_cube tells whether a cube was
\* recorded.
base_color(hit_object, hit_cube, material, texel) ==
    IF hit_object = 1 /\ material.has_texture /\ hit_cube
    THEN IF material.material_type \in {"Glass", "Metal"}
         THEN material.diffuse
         ELSE texel
    ELSE material.diffuse

\* The return at a hit: shaded colour, then the blend.
ShadeHit ==
    /\ pc = "shade_call"
    /\ args.kind = "hit"
    /\ LET m == args.material
           base == base_color(args.hit_object, args.hit_cube, m, args.texel)
           shaded == ShadedColor(m, base, args.lit)
       IN  result' =
             [color |-> Blend(m, shaded, args.reflect_color,
                              args.refract_color, args.dot_in),
              base_color |-> base,
              shaded |-> shaded,
              kr |-> IF is_transparent(m) \/ is_reflective(m)
                     THEN Some(Kr(args.dot_in, m.refractive_index))
                     ELSE None]
    /\ pc' = "shade_done"
    /\ UNCHANGED <<args, castVars, frameVars, textures>>

\* The return at a miss and at depth 0: sample_sky.
ShadeSky ==
    /\ pc = "shade_call"
    /\ args.kind = "miss"
    /\ LET sky == IF args.skybox = None THEN GradientSky(args.dir_y)
                  ELSE GradientRow(SkyFaceSize, args.skybox[1][1],
                                   args.skybox[1][2], args.row)
       IN  result' = [color |-> sky, base_color |-> sky, shaded |-> sky,
                      kr |-> None]
    /\ pc' = "shade_done"
    /\ UNCHANGED <<args, castVars, frameVars, textures>>

NextShade == ShadeHit \/ ShadeSky

SpecShade == InitShade /\ [][NextShade]_vars

\* C7: every Fresnel coefficient used in a blend lies in [0, 1] and every
\* channel of a returned colour (shaded only, reflective blend, transparent
\* blend, sky) lies in [0, 255], whatever the material weights.
C7_RangeSafety ==
    pc = "shade_done" =>
        /\ \A i \in 1..Len(result.kr) : result.kr[i] \in 0..1000
        /\ \A ch \in 1..3 : result.color[ch] \in 0..255
                            /\ result.shaded[ch] \in 0..255

\* A transparent blend with a transmission weight above 1: the weighted sum
\* of a lit surface is negative before the conversion to u8.
C7_Witness ==
    /\ pc = "shade_done"
    /\ args.kind = "hit"
    /\ is_transparent(args.material)
    /\ args.material.albedo[2] > 1000
    /\ result.kr /= None /\ result.kr[1] \in 1..999
    /\ args.reflect_color = <<0, 0, 0>> /\ args.refract_color = <<0, 0, 0>>
    /\ \E ch \in 1..3 : result.color[ch] = 0 /\ result.shaded[ch] > 0

----------------------------------------------------------------------------
(* main.rs: Texture.  A texture is its dimensions and the length of its
   byte vector; u and v are in thousandths. *)

\* Texture::load_from_file: an RGB8 image of w x h pixels.
Texture(w, h) == [width |-> w, height |-> h, len |-> w * h * 3]

\* f32::fract: the fractional part, with the sign of the argument.
Fract(u) == u - TruncDiv(u, 1000) * 1000

\* (u.fract() + 1.0).fract().clamp(0.0, 1.0)
WrapUnit(u) == Clamp(Fract(Fract(u) + 1000), 0, 1000)

\* ((u * n as f32) as u32).min(n - 1)
TexelCoord(u, n) == Min(Max(TruncDiv(u * n, 1000), 0), n - 1)

\* ((y * self.width + x) * 3) as usize
TexelIndexTransposed(tex, x, y) == (x * tex.width + y) * 3

TexelIndex(tex, x, y) == (y * tex.width + x) * 3

\* Texture::sample: the texel addressed and whether it is read from data
\* (otherwise the colour returned is magenta).
sample(tex, u0, v0) ==
    LET u == WrapUnit(u0)
        v == WrapUnit(v0)
        x == TexelCoord(u, tex.width)
        y == TexelCoord(v, tex.height)
        index == TexelIndex(tex, x, y)
    IN  [x |-> x, y |-> y, index |-> index, read |-> index + 2 < tex.len]

\* Dimensions of the textures sampled: image files of any shape, the
\* 32 x 32 procedural textures and the 256 x 256 sky faces.
TextureDims == {<<1, 1>>, <<2, 1>>, <<1, 3>>, <<5, 3>>, <<32, 32>>,
                <<SkyFaceSize, SkyFaceSize>>}

UvValues == {-2500, -1000, -1, 0, 1, 500, 999, 1000, 1001, 2750}

\* Points on the faces, edges and corners of a cube of the scene.
UvCube == Cube(center, cube_size, stone_layer)

UvOffsets == {0, 100, cube_size \div 2, cube_size - 100, cube_size}

UvPoints ==
    {p \in {<<UvCube.min[1] + a, UvCube.min[2] + b, UvCube.min[3] + c>> :
              a \in UvOffsets, b \in UvOffsets, c \in UvOffsets} :
        \E k \in 1..3 : p[k] \in {UvCube.min[k], UvCube.max[k]}}

SampleArgs ==
    {[tex |-> Texture(d[1], d[2]), from |-> "any", point |-> <<0, 0, 0>>,
      u |-> u, v |-> v] : d \in TextureDims, u \in UvValues, v \in UvValues}
    \cup
    {[tex |-> Texture(d[1], d[2]), from |-> "cube", point |-> p,
      u |-> get_uv_coordinates(UvCube, p)[1],
      v |-> get_uv_coordinates(UvCube, p)[2]] :
        d \in TextureDims, p \in UvPoints}

InitSample ==
    /\ pc = "sample_call"
    /\ args \in SampleArgs
    /\ result = <<>>
    /\ IdleCast /\ IdleFrame /\ IdleAssets

TextureSample ==
    /\ pc = "sample_call"
    /\ result' = sample(args.tex, args.u, args.v)
    /\ pc' = "sample_done"
    /\ UNCHANGED <<args, castVars, frameVars, textures>>

NextSample == TextureSample

SpecSample == InitSample /\ [][NextSample]_vars

\* C8: for any (u, v) the texel column is below width, the row below
\* height, and the three bytes read lie inside data.
C8_SampleInBounds ==
    pc = "sample_done" =>
        /\ result.x \in 0..(args.tex.width - 1)
        /\ result.y \in 0..(args.tex.height - 1)
        /\ result.index + 2 < args.tex.len
        /\ result.read

\* u exactly 1.0 as get_uv_coordinates yields at a cube edge: it wraps to
\* column 0 of a texture wider than it is high, on its last row.
C8_Witness ==
    /\ pc = "sample_done"
    /\ args.from = "cube"
    /\ args.u = 1000
    /\ args.tex.width > args.tex.height
    /\ args.tex.height > 1
    /\ result.x = 0
    /\ result.y = args.tex.height - 1

\* A negative and an above-one coordinate land inside the texture too.
C8_WitnessWrapped ==
    /\ pc = "sample_done"
    /\ args.u < 0 /\ args.v > 1000
    /\ result.x > 0 /\ result.y > 0

----------------------------------------------------------------------------
(* camera.rs: OrbitCamera.  Angles are in thousandths of a radian, lengths
   and the components of unit vectors in thousandths. *)

\* std::f32::consts::PI
PI == 3142

\* Largest r with r * r <= n, by bisection.
RECURSIVE SqrtBetween(_, _, _)
SqrtBetween(n, lo, hi) ==
    IF lo >= hi THEN lo
    ELSE LET mid == (lo + hi + 1) \div 2 IN
         IF mid * mid <= n THEN SqrtBetween(n, mid, hi)
         ELSE SqrtBetween(n, lo, mid - 1)

Sqrt(n) == SqrtBetween(n, 0, 46340)

\* f32::sin: the angle is reduced to [-PI/2, PI/2] and the series is summed
\* to the seventh power.
sin(a) ==
    LET r0 == a % (2 * PI)
        r1 == IF r0 > PI THEN r0 - 2 * PI ELSE r0
        x == IF r1 > PI \div 2 THEN PI - r1
             ELSE IF r1 < -(PI \div 2) THEN -PI - r1 ELSE r1
        x2 == TruncDiv(x * x, 1000)
        x3 == TruncDiv(x2 * x, 1000)
        x5 == TruncDiv(x3 * x2, 1000)
        x7 == TruncDiv(x5 * x2, 1000)
    IN  Clamp(x - TruncDiv(x3, 6) + TruncDiv(x5, 120) - TruncDiv(x7, 5040),
              -1000, 1000)

\* f32::cos
cos(a) == sin(a + PI \div 2)

\* nalgebra_glm::normalize
normalize(v) ==
    LET len == Sqrt(v[1] * v[1] + v[2] * v[2] + v[3] * v[3]) IN
    IF len = 0 THEN <<0, 0, 0>>
    ELSE [k \in 1..3 |-> TruncDiv(v[k] * 1000, len)]

\* nalgebra_glm::cross of two vectors in thousandths.
cross(a, b) ==
    <<TruncDiv(a[2] * b[3] - a[3] * b[2], 1000),
      TruncDiv(a[3] * b[1] - a[1] * b[3], 1000),
      TruncDiv(a[1] * b[2] - a[2] * b[1], 1000)>>

\* OrbitCamera::update
update(cam) ==
    LET x == TruncDiv(TruncDiv(cam.distance * cos(cam.pitch), 1000)
                      * cos(cam.yaw), 1000)
        y == TruncDiv(cam.distance * sin(cam.pitch), 1000)
        z == TruncDiv(TruncDiv(cam.distance * cos(cam.pitch), 1000)
                      * sin(cam.yaw), 1000)
        eye == <<cam.target[1] + x, cam.target[2] + y, cam.target[3] + z>>
        forward == normalize([k \in 1..3 |-> cam.target[k] - eye[k]])
        right == normalize(cross(forward, <<0, 1000, 0>>))
        up == cross(right, forward)
    IN  [cam EXCEPT !.eye = eye, !.forward = forward, !.right = right,
                    !.up = up]

\* OrbitCamera::new
OrbitCamera_new(target, distance) ==
    update([target |-> target, distance |-> distance, yaw |-> 0, pitch |-> 0,
            eye |-> <<0, 0, 0>>, up |-> <<0, 1000, 0>>,
            right |-> <<1000, 0, 0>>, forward |-> <<0, 0, -1000>>])

\* f32 `%`: the remainder has the sign of the dividend.
Rem(a, b) == a - TruncDiv(a, b) * b

\* The yaw kept by orbit when the wrap is left out.
WrapYawNone(yaw) == yaw

\* self.yaw % (2.0 * PI)
WrapYaw(yaw) == Rem(yaw, 2 * PI)

\* The largest pitch, PI * 0.49.
PitchLimit == TruncDiv(PI * 49, 100)

\* OrbitCamera::orbit
orbit(cam, delta_yaw, delta_pitch) ==
    update([cam EXCEPT
              !.pitch = Clamp(cam.pitch + delta_pitch, -PitchLimit, PitchLimit),
              !.yaw = WrapYaw(cam.yaw + delta_yaw)])

\* OrbitCamera::zoom with the cached vectors left as they were.
zoom_stale(cam, delta) ==
    [cam EXCEPT !.distance = Min(Max(cam.distance + delta, 1000), 20000)]

\* OrbitCamera::zoom without the upper limit of the distance.
zoom_unbounded(cam, delta) ==
    update([cam EXCEPT !.distance = Max(cam.distance + delta, 1000)])

\* OrbitCamera::zoom
zoom(cam, delta) ==
    update([cam EXCEPT !.distance = Min(Max(cam.distance + delta, 1000), 20000)])

\* OrbitCamera::get_ray_direction
get_ray_direction(cam, screen_x, screen_y) ==
    normalize([k \in 1..3 |->
        TruncDiv(screen_x * cam.right[k], 1000)
        + TruncDiv(screen_y * cam.up[k], 1000) + cam.forward[k]])

----------------------------------------------------------------------------
(* framebuffer.rs and the frame loop of main / render_optimized_recursive *)

\* The window is 500 x 400 in main.rs; the model renders a small one.
WIDTH == 2

HEIGHT == 2

\* Frames rendered before the window is closed.
MaxFrames == 2

\* Color::to_hex: the colour packed as 0xRRGGBB.
to_hex(c) == c[1] * 65536 + c[2] * 256 + c[3]

\* Framebuffer::new: vec![0; width * height]; cell y * width + x is
\* element y * width + x + 1 of the sequence.
NewBuffer == [i \in 1..(WIDTH * HEIGHT) |-> 0]

\* Framebuffer::clear
clear(buf) == [i \in DOMAIN buf |-> 0]

\* The cells Framebuffer::point(x, y) assigns.
PointCellsNarrow(x, y) ==
    IF x < WIDTH - 1 /\ y < HEIGHT THEN {y * WIDTH + x + 1} ELSE {}

PointCells(x, y) ==
    IF x < WIDTH /\ y < HEIGHT THEN {y * WIDTH + x + 1} ELSE {}

\* Framebuffer::point with current_color = color.
point(buf, color, x, y) ==
    [i \in DOMAIN buf |-> IF i \in PointCells(x, y) THEN to_hex(color)
                          ELSE buf[i]]

\* `skip` of render_optimized_recursive.
skip == 1

\* What the primary ray of a pixel returns and adds to the statistics: a
\* miss showing the sky, and a hit on a surface shaded black.
PrimaryOutcomes ==
    {[color |-> GradientSky(-1000), rays_cast |-> 1, hits |-> 0, misses |-> 1],
     [color |-> <<0, 0, 0>>, rays_cast |-> 1, hits |-> 1, misses |-> 0]}

\* The record of the last write to a cell: the frame it was made in, the
\* number of writes in that frame, the pixel whose primary ray was cast and
\* that ray's packed colour and ray count.
NeverPainted == [frame |-> 0, writes |-> 0, pixel |-> <<0, 0>>, hex |-> 0,
                 rays_cast |-> 0]

InitRender ==
    /\ pc = "loop"
    /\ buffer = NewBuffer
    /\ current_color = <<255, 255, 255>>
    /\ cursor = <<0, 0>>
    /\ frame = 0
    /\ painted = [i \in 1..(WIDTH * HEIGHT) |-> NeverPainted]
    /\ stats = ZeroStats
    /\ stack = <<>> /\ calls = 0
    /\ camera = orbit(OrbitCamera_new(<<0, 2000, 0>>, 10000), 800, 400)
    /\ applied = <<>>
    /\ IdleCall /\ IdleAssets

\* One turn of `while window.is_open()`: stats.reset() and the call of
\* render_optimized_recursive.
BeginFrame ==
    /\ pc = "loop"
    /\ frame < MaxFrames
    /\ frame' = frame + 1
    /\ stats' = ZeroStats
    /\ pc' = "clear"
    /\ UNCHANGED <<args, result, stack, calls, buffer, current_color, cursor,
                   painted, textures, camera, applied>>

\* framebuffer.clear()
ClearBuffer ==
    /\ pc = "clear"
    /\ buffer' = clear(buffer)
    /\ cursor' = <<0, 0>>
    /\ pc' = IF WIDTH = 0 \/ HEIGHT = 0 THEN "present" ELSE "paint"
    /\ UNCHANGED <<args, result, castVars, current_color, frame, painted,
                   textures, camera, applied>>

\* The body of the pixel loops for (x, y) = cursor: the primary ray, then
\* set_current_color and point.
PaintPixel ==
    /\ pc = "paint"
    /\ \E o \in PrimaryOutcomes :
         LET x == cursor[1]
             y == cursor[2]
             \* dx and dy range over 0..skip, that is over {0}
             inside == x < WIDTH /\ y < HEIGHT
             cells == IF inside THEN PointCells(x, y) ELSE {}
         IN  /\ current_color' = o.color
             /\ buffer' = IF inside THEN point(buffer, o.color, x, y)
                          ELSE buffer
             /\ painted' = [i \in DOMAIN painted |->
                             IF i \in cells
                             THEN [frame |-> frame,
                                   writes |-> IF painted[i].frame = frame
                                              THEN painted[i].writes + 1 ELSE 1,
                                   pixel |-> cursor,
                                   hex |-> to_hex(o.color),
                                   rays_cast |-> o.rays_cast]
                             ELSE painted[i]]
             /\ stats' = [stats EXCEPT !.rays_cast = @ + o.rays_cast,
                                       !.hits = @ + o.hits,
                                       !.misses = @ + o.misses]
             /\ cursor' = IF x + skip < WIDTH THEN <<x + skip, y>>
                          ELSE <<0, y + skip>>
             /\ pc' = IF x + skip >= WIDTH /\ y + skip >= HEIGHT
                      THEN "present" ELSE "paint"
    /\ UNCHANGED <<args, result, stack, calls, frame, textures, camera, applied>>

\* window.update_with_buffer
Present ==
    /\ pc = "present"
    /\ pc' = "loop"
    /\ UNCHANGED <<args, result, castVars, frameVars, textures>>

\* The window is closed or Escape is down.
CloseWindow ==
    /\ pc = "loop"
    /\ pc' = "exit"
    /\ UNCHANGED <<args, result, castVars, frameVars, textures>>

NextRender == BeginFrame \/ ClearBuffer \/ PaintPixel \/ Present \/ CloseWindow

SpecRender == InitRender /\ [][NextRender]_vars

RECURSIVE SumRays(_, _)
SumRays(p, n) == IF n = 0 THEN 0 ELSE p[n].rays_cast + SumRays(p, n - 1)

\* C9: a frame starts from reset statistics, clears every cell before it
\* paints, and when it is presented every cell (x, y) has been written
\* exactly once in this frame, with the packed colour of the primary ray
\* of pixel (x, y); no cell holds a value of an earlier frame.
C9_FrameOverwrites ==
    /\ pc = "clear" => stats = ZeroStats
    /\ pc = "paint" =>
          \A i \in DOMAIN buffer :
              painted[i].frame /= frame => buffer[i] = 0
    /\ pc \in {"paint", "present"} =>
          \A i \in DOMAIN buffer : painted[i].frame = frame =>
              painted[i].writes = 1
    /\ pc = "present" =>
          /\ DOMAIN buffer = 1..(WIDTH * HEIGHT)
          /\ \A x \in 0..(WIDTH - 1), y \in 0..(HEIGHT - 1) :
                LET i == y * WIDTH + x + 1 IN
                /\ painted[i].frame = frame
                /\ painted[i].writes = 1
                /\ painted[i].pixel = <<x, y>>
                /\ buffer[i] = painted[i].hex
          /\ stats.rays_cast = SumRays(painted, WIDTH * HEIGHT)
          /\ stats.hits + stats.misses = WIDTH * HEIGHT

\* The second frame is complete: over the cells of the first frame it
\* painted black in some cells and the sky in others.
C9_Witness ==
    /\ pc = "present"
    /\ frame = 2
    /\ \E i \in DOMAIN buffer : buffer[i] = 0
    /\ \E i \in DOMAIN buffer : buffer[i] = to_hex(GradientSky(-1000))
    /\ stats.rays_cast = WIDTH * HEIGHT

----------------------------------------------------------------------------
(* main.rs: the assets loaded before the frame loop, and
   Skybox::load_from_files.  The result of Texture::load_from_file is None
   for Err and Some(texture) for Ok. *)

\* The create_*_texture generators: size x size texels, three bytes pushed
\* for each (x, y).
ProceduralTextureGray(size) ==
    [width |-> size, height |-> size, len |-> size * size]

ProceduralTexture(size) ==
    [width |-> size, height |-> size, len |-> size * (size * 3)]

ProceduralSize == 32

\* The fallback written inline in main for crystal.png.
CrystalFallback == [width |-> 32, height |-> 32, len |-> (32 * 32) * 3]

\* Skybox::make_vertical_gradient(size, ..): size rows of size texels.
make_vertical_gradient(size) ==
    [width |-> size, height |-> size, len |-> size * (size * 3)]

\* Skybox::create_procedural_sky: px, nx, py, ny, pz, nz.
create_procedural_sky == [k \in 1..6 |-> make_vertical_gradient(SkyFaceSize)]

\* The files main loads, in order.
TextureFiles == <<"grass", "dirt", "stone", "water", "lava", "obsidian",
                  "leaves", "wood", "cactus", "crystal">>

\* What load_from_file can return for a file: Err, or the image decoded.
LoadResults == {None, Some(Texture(64, 32))}

\* Skybox::try_load_from_files: the first Err is returned by `?`.
try_load_from_files(faces) ==
    IF \E k \in 1..6 : faces[k] = None THEN None
    ELSE Some([k \in 1..6 |-> faces[k][1]])

\* Skybox::load_from_files; ok is FALSE for an Err result.
load_from_files_propagating(faces) ==
    LET r == try_load_from_files(faces) IN
    IF r = None THEN [ok |-> FALSE, skybox |-> <<>>]
    ELSE [ok |-> TRUE, skybox |-> r[1]]

load_from_files(faces) ==
    LET r == try_load_from_files(faces) IN
    IF r = None THEN [ok |-> TRUE, skybox |-> create_procedural_sky]
    ELSE [ok |-> TRUE, skybox |-> r[1]]

\* Either main starts, or load_from_files is called with six files that
\* load or fail.
InitAssets ==
    /\ textures = <<>>
    /\ result = <<>>
    /\ \/ pc = "load_textures" /\ args = <<>>
       \/ pc = "sky_call" /\ args \in [faces : [1..6 -> LoadResults]]
    /\ IdleCast /\ IdleFrame

\* match Texture::load_from_file(..) { Ok(tex) => tex, .. }
LoadTextureOk ==
    /\ pc = "load_textures"
    /\ Len(textures) < Len(TextureFiles)
    /\ \E r \in LoadResults \ {None} :
         textures' = Append(textures,
                            [name |-> TextureFiles[Len(textures) + 1],
                             tex |-> r[1], fallback |-> FALSE])
    /\ UNCHANGED <<pc, args, result, castVars, frameVars>>

\* match Texture::load_from_file(..) { .., Err(_) => the fallback }
LoadTextureErr ==
    /\ pc = "load_textures"
    /\ Len(textures) < Len(TextureFiles)
    /\ LET name == TextureFiles[Len(textures) + 1] IN
       textures' = Append(textures,
                          [name |-> name,
                           tex |-> IF name = "crystal" THEN CrystalFallback
                                   ELSE ProceduralTexture(ProceduralSize),
                           fallback |-> TRUE])
    /\ UNCHANGED <<pc, args, result, castVars, frameVars>>

\* let sand_texture = Texture::create_sand_texture();
CreateSand ==
    /\ pc = "load_textures"
    /\ Len(textures) = Len(TextureFiles)
    /\ textures' = Append(textures,
                          [name |-> "sand",
                           tex |-> ProceduralTexture(ProceduralSize),
                           fallback |-> TRUE])
    /\ pc' = "skybox"
    /\ UNCHANGED <<args, result, castVars, frameVars>>

\* let skybox = Some(Skybox::create_procedural_sky()); the frame loop
\* follows.
CreateSky ==
    /\ pc = "skybox"
    /\ textures' = textures \o
                   [k \in 1..6 |-> [name |-> "sky", tex |-> create_procedural_sky[k],
                                    fallback |-> TRUE]]
    /\ pc' = "render"
    /\ UNCHANGED <<args, result, castVars, frameVars>>

\* A call of Skybox::load_from_files.
SkyLoadFromFiles ==
    /\ pc = "sky_call"
    /\ result' = load_from_files(args.faces)
    /\ pc' = "sky_done"
    /\ UNCHANGED <<args, textures, castVars, frameVars>>

NextAssets ==
    LoadTextureOk \/ LoadTextureErr \/ CreateSand \/ CreateSky \/ SkyLoadFromFiles

SpecAssets == InitAssets /\ [][NextAssets]_vars

\* A texture on which sample reads a texel for every (u, v).
Sampleable(tex) ==
    /\ tex.width >= 1 /\ tex.height >= 1
    /\ tex.len = 3 * tex.width * tex.height
    /\ \A u \in {-1, 0, 999, 1000}, v \in {-1, 0, 999, 1000} :
          sample(tex, u, v).read

\* C10: every texture whose file failed to load is a 32 x 32 texture with
\* 3 * 32 * 32 bytes, load_from_files returns Ok, with six 256 x 256 faces
\* when a face file failed, and rendering starts with textures that all
\* support sample(u, v).
C10_LoadFailureNotFatal ==
    /\ \A i \in 1..Len(textures) :
          /\ Sampleable(textures[i].tex)
          /\ (textures[i].fallback /\ textures[i].name /= "sky") =>
                textures[i].tex = [width |-> 32, height |-> 32,
                                   len |-> 3 * 32 * 32]
    /\ pc = "render" =>
          /\ Len(textures) = Len(TextureFiles) + 7
          /\ \A i \in 1..Len(TextureFiles) : textures[i].name = TextureFiles[i]
    /\ pc = "sky_done" =>
          /\ result.ok
          /\ Len(result.skybox) = 6
          /\ \A k \in 1..6 : Sampleable(result.skybox[k])
          /\ (\E k \in 1..6 : args.faces[k] = None) =>
                \A k \in 1..6 :
                    result.skybox[k] = [width |-> 256, height |-> 256,
                                        len |-> 3 * 256 * 256]

\* Rendering starts after grass.png loaded and dirt.png and crystal.png
\* failed.
C10_Witness ==
    /\ pc = "render"
    /\ ~textures[1].fallback
    /\ textures[2].fallback
    /\ textures[10].fallback /\ textures[10].name = "crystal"

\* load_from_files has returned after one face file failed.
C10_WitnessSky ==
    /\ pc = "sky_done"
    /\ args.faces[3] = None /\ args.faces[1] /= None
    /\ result.ok

----------------------------------------------------------------------------
(* material.rs: the predicates over arbitrary materials *)

\* Specular values around the threshold of 50.0, in thousandths.
SpecularValues == {0, 49999, 50000, 50001, 125000}

PredicateArgs ==
    {Mat(<<200, 200, 200>>, sp, <<1000 - t, t>>, ior, tex, tag) :
        sp \in SpecularValues, t \in {0, 800}, ior \in {1000, 1330},
        tex \in BOOLEAN, tag \in MaterialTypes}

InitPredicates ==
    /\ pc = "predicates_call"
    /\ args \in PredicateArgs
    /\ result = <<>>
    /\ IdleCast /\ IdleFrame /\ IdleAssets

\* The three predicates applied to one material.
MaterialPredicates ==
    /\ pc = "predicates_call"
    /\ result' = [emissive |-> is_emissive(args),
                  transparent |-> is_transparent(args),
                  reflective |-> is_reflective(args)]
    /\ pc' = "predicates_done"
    /\ UNCHANGED <<args, castVars, frameVars, textures>>

NextPredicates == MaterialPredicates

SpecPredicates == InitPredicates /\ [][NextPredicates]_vars

\* C11: emissive iff the tag is Lava; transparent iff the tag is Glass or
\* Water; reflective iff specular > 50 or the tag is Water, Metal or
\* Obsidian, so that a specular of exactly 50 is reflective only through
\* the tag; no other field of the material matters.
C11_MaterialPredicates ==
    pc = "predicates_done" =>
        /\ result.emissive <=> (args.material_type = "Lava")
        /\ result.transparent <=> (args.material_type \in {"Glass", "Water"})
        /\ result.reflective <=>
              (args.specular > 50000
               \/ args.material_type \in {"Water", "Metal", "Obsidian"})
        /\ (args.specular = 50000 /\ result.reflective) =>
              args.material_type \in {"Water", "Metal", "Obsidian"}

\* A material with specular exactly 50 whose tag is not reflective.
C11_Witness ==
    /\ pc = "predicates_done"
    /\ args.specular = 50000
    /\ args.material_type = "Stone"
    /\ ~result.reflective /\ ~result.transparent /\ ~result.emissive

----------------------------------------------------------------------------
(* The camera under the key handling of main's loop *)

\* Camera calls made before the window is closed.
MaxCameraCalls == 3

\* delta_yaw, delta_pitch and zoom deltas: the steps of main and larger
\* ones, beyond a full turn and beyond the pitch and distance limits.
YawDeltas == {-7000, -100, 50, 800, 2 * PI}

PitchDeltas == {-2000, 0, 400, 2000}

ZoomDeltas == {-12000, -600, 1200, 11000}

ScreenPoints == {<<0, 0>>, <<-1250, 1000>>}

InitCamera ==
    /\ pc = "camera"
    /\ camera = OrbitCamera_new(<<0, 2000, 0>>, 10000)
    /\ applied = [yaw |-> 0, calls |-> 0]
    /\ IdleCall /\ IdleCast /\ IdleBuffer /\ IdleAssets

\* camera.orbit(delta_yaw, delta_pitch)
CameraOrbit ==
    /\ applied.calls < MaxCameraCalls
    /\ \E dy \in YawDeltas, dp \in PitchDeltas :
         /\ applied' = [yaw |-> applied.yaw + dy, calls |-> applied.calls + 1]
         /\ camera' = orbit(camera, dy, dp)
    /\ UNCHANGED <<pc, args, result, castVars, bufferVars, textures>>

\* camera.zoom(delta)
CameraZoom ==
    /\ applied.calls < MaxCameraCalls
    /\ applied' = [applied EXCEPT !.calls = @ + 1]
    /\ \E d \in ZoomDeltas : camera' = zoom(camera, d)
    /\ UNCHANGED <<pc, args, result, castVars, bufferVars, textures>>

\* Space: a new camera, orbited as at start-up.
CameraReset ==
    /\ applied.calls < MaxCameraCalls
    /\ applied' = [yaw |-> 800, calls |-> applied.calls + 1]
    /\ camera' = orbit(OrbitCamera_new(<<0, 2000, 0>>, 10000), 800, 400)
    /\ UNCHANGED <<pc, args, result, castVars, bufferVars, textures>>

\* camera.get_ray_direction(screen_x, screen_y) for one pixel.
CameraRay ==
    /\ \E sp \in ScreenPoints :
         /\ args' = sp
         /\ result' = get_ray_direction(camera, sp[1], sp[2])
    /\ UNCHANGED <<pc, castVars, frameVars, textures>>

NextCamera == CameraOrbit \/ CameraZoom \/ CameraReset \/ CameraRay

SpecCamera == InitCamera /\ [][NextCamera]_vars

\* C12: after any sequence of orbit and zoom calls the pitch lies within
\* +-0.49 PI, the magnitude of the yaw is below 2 PI, and the yaw is
\* congruent modulo 2 PI to the sum of the delta_yaw applied.
C12_PitchYawRange ==
    /\ camera.pitch >= -PitchLimit /\ camera.pitch <= PitchLimit
    /\ Abs(camera.yaw) < 2 * PI
    /\ (camera.yaw - applied.yaw) % (2 * PI) = 0

\* The deltas applied sum to more than a full turn, so the yaw was wrapped,
\* and the pitch was clamped at its upper limit.
C12_Witness ==
    /\ applied.calls >= 2
    /\ applied.yaw > 2 * PI
    /\ camera.yaw /= applied.yaw
    /\ camera.pitch = PitchLimit

\* A negative sum beyond a full turn leaves a negative yaw.
C12_WitnessNegative ==
    /\ applied.yaw < -(2 * PI)
    /\ camera.yaw < 0
    /\ camera.pitch = -PitchLimit

\* C13: eye, forward, right and up are always the values update() derives
\* from the current target, distance, yaw and pitch, and a step of
\* get_ray_direction changes no camera field.
C13_CacheFresh ==
    /\ [](camera = update(camera))
    /\ [][result' /= result => camera' = camera]_vars

\* The camera was zoomed and orbited away from its first position and a
\* ray direction was taken from it.
C13_Witness ==
    /\ camera.distance /= 10000
    /\ camera.yaw /= 0 /\ camera.pitch /= 0
    /\ camera.eye /= OrbitCamera_new(<<0, 2000, 0>>, 10000).eye
    /\ result /= <<>>
    /\ result = get_ray_direction(camera, args[1], args[2])

----------------------------------------------------------------------------
(* The bounding box against the cubes of the scene *)

\* Cube i lies inside the bounding box on every axis.
Enclosed(i) ==
    \A k \in 1..3 : /\ bounding_box_min[k] <= DioramaCubes[i].min[k]
                    /\ DioramaCubes[i].max[k] <= bounding_box_max[k]

\* C14: the bounding box encloses every cube of the scene, here every cube
\* that some ray intersects: terrain, tree, crystals, roof and cactus alike.
C14_BboxEncloses ==
    pc = "scene_done" => \A i \in result.cubes : Enclosed(i)

----------------------------------------------------------------------------
(* ray_intersect_fast against the nearest cube *)

\* The ray parameter at which the ray of the call meets cube i.
HitDistance(i) == ray_intersect(DioramaCubes[i], args.origin, args.direction)[1]

\* The cubes met beyond 0.001.
CubesBeyond == {i \in result.cubes : HitDistance(i) > HitEpsilon * TDen}

\* The nearest of them, the lowest index among equals.
NearestCube ==
    IF CubesBeyond = {} THEN None
    ELSE LET m == CHOOSE i \in CubesBeyond :
                    \A j \in CubesBeyond :
                        \/ HitDistance(i) < HitDistance(j)
                        \/ (HitDistance(i) = HitDistance(j) /\ i <= j)
         IN  Some(<<m, HitDistance(m)>>)

\* C15: when the bounding box is hit, ray_intersect_fast returns the cube
\* with the smallest distance beyond 0.001 among all cubes, the lowest
\* index among equals, and None iff there is no such cube.
C15_NearestOfAll ==
    (pc = "scene_done" /\ result.bbox) => result.fast = NearestCube

----------------------------------------------------------------------------
(* The surface a call shades *)

\* C16: the floor is shaded only when its distance is beyond 0.001 and
\* strictly below the distance of the cube ray_intersect_fast returned,
\* otherwise that cube is; with neither, the call returns the sky.
C16_NearerSurface ==
    pc = "scene_done" =>
        LET cube == result.fast /= None
            plane == result.floor /= None /\ result.floor[1] > HitEpsilon * TDen
            nearer == plane /\ (cube => result.floor[1] < result.fast[1][2])
        IN  /\ result.surface.hit_object = 5 <=> nearer
            /\ result.surface.hit_object = 1 <=> (cube /\ ~nearer)
            /\ result.surface.hit_object = 0 <=> (~cube /\ result.floor = None)
            /\ result.surface.hit_object = 5 =>
                  result.surface.closest_distance = result.floor[1]
            /\ result.surface.hit_object = 1 =>
                  result.surface.closest_distance = result.fast[1][2]

\* A ray from below the floor meets the floor first and a cube behind it.
C16_Witness ==
    /\ pc = "scene_done"
    /\ result.fast /= None
    /\ result.floor /= None
    /\ result.floor[1] < result.fast[1][2]
    /\ result.surface.hit_object = 5

\* A ray from above meets a cube and, farther along, the floor.
C16_WitnessCube ==
    /\ pc = "scene_done"
    /\ result.fast /= None
    /\ result.floor /= None
    /\ result.floor[1] > result.fast[1][2]
    /\ result.surface.hit_object = 1

----------------------------------------------------------------------------
(* The depth of the recursion *)

\* C17: a call with depth == 0 returns at once, the statistics and the
\* count of calls as they were (the intersection phase, which begins with
\* rays_cast += 1, is not entered); every recursive call is made from a
\* call of depth >= 1 with exactly depth - 1, and no depth is below 0.
C17_DepthZeroAndDecrement ==
    /\ [](\A i \in 1..Len(stack) : stack[i].depth >= 0)
    /\ [][/\ (pc = "cast" /\ Top.stage = "enter" /\ Top.depth = 0) =>
               /\ stats' = stats
               /\ calls' = calls
               /\ stack' = Return(stack)
          /\ Len(stack') > Len(stack) =>
               /\ Len(stack') = Len(stack) + 1
               /\ Top.depth >= 1
               /\ stack'[Len(stack')].depth = Top.depth - 1]_vars

\* Five nested reflections from MAX_DEPTH; the call with depth 0 made by
\* the fifth has returned, and five rays were counted.
C17_Witness ==
    /\ pc = "cast"
    /\ args.depth = MAX_DEPTH
    /\ Len(stack) = MAX_DEPTH
    /\ Top.depth = 1 /\ Top.stage = "reflect" /\ Top.children = 1
    /\ stats.rays_cast = MAX_DEPTH
    /\ calls = MAX_DEPTH

----------------------------------------------------------------------------
(* The shadow test of the light loop, under SpecScene: the ray of the call  *)
(* is the shadow ray.                                                       *)

\* The cubes of even array index the ray meets beyond 0.001 and before the
\* light.
Occluders(l) ==
    {i \in result.cubes : /\ (i - 1) % 2 = 0
                          /\ HitDistance(i) > HitEpsilon * TDen
                          /\ HitDistance(i) < l}

\* C18: in_shadow is TRUE exactly for the first light on a surface that is
\* not Water when some cube of even array index is met at a distance above
\* 0.001 and below the distance to the light; the second light, a Water
\* surface, cubes of odd index and the floor never give a shadow.
C18_ShadowTest ==
    pc = "scene_done" =>
        \A i \in 1..2, m \in ShadowSurfaces, l \in LightDistances :
            result.in_shadow[i, m, l] <=>
                /\ i = 1
                /\ m.material_type /= "Water"
                /\ Occluders(l) /= {}

\* A shadow ray that meets cubes of odd index and the floor but no cube of
\* even index: no light is shadowed.
C18_Witness ==
    /\ pc = "scene_done"
    /\ result.cubes /= {}
    /\ \A i \in result.cubes : (i - 1) % 2 = 1
    /\ result.floor /= None
    /\ \A i \in 1..2, m \in ShadowSurfaces, l \in LightDistances :
           ~result.in_shadow[i, m, l]

\* A shadow ray that meets a cube of even index between the two light
\* distances: the first light is shadowed at the longer distance only, and
\* neither the second light nor a Water surface is.
C18_WitnessShadowed ==
    /\ pc = "scene_done"
    /\ result.in_shadow[1, stone_wall, 10000 * TDen]
    /\ ~result.in_shadow[1, stone_wall, 3000 * TDen]
    /\ ~result.in_shadow[2, stone_wall, 10000 * TDen]
    /\ ~result.in_shadow[1, water_surface, 10000 * TDen]

----------------------------------------------------------------------------
(* The base colour of a hit, under SpecShade                                *)

\* C19: the base colour of every hit, on a cube or on the floor, is the
\* texture sample when the material has a texture and is neither Glass nor
\* Metal, and the material's diffuse colour otherwise.
C19_BaseColor ==
    (pc = "shade_done" /\ args.kind = "hit") =>
        result.base_color =
            IF args.material.has_texture
               /\ args.material.material_type \notin {"Glass", "Metal"}
            THEN args.texel
            ELSE args.material.diffuse

----------------------------------------------------------------------------
(* The blend of a transparent material, under SpecShade                     *)

\* (1 - t)*shaded + kr*t*reflect_color + (1 - kr)*t*refract_color on channel
\* ch, in thousandths.
TransmitWeighted(t, kr, shaded, reflect_color, refract_color, ch) ==
    TruncDiv(shaded[ch] * 1000 * (1000 - t)
             + reflect_color[ch] * kr * t
             + refract_color[ch] * (1000 - kr) * t, 1000)

\* C20: the colour returned for a transparent material with transmit weight
\* t = albedo[1] is, on every channel and within one unit of rounding,
\* (1 - t)*shaded + kr*t*reflect_color + (1 - kr)*t*refract_color.
C20_TransparentBlend ==
    (pc = "shade_done" /\ args.kind = "hit" /\ is_transparent(args.material)) =>
        LET t == args.material.albedo[2]
            weighted == ColorClamp(from_vec3(
                [ch \in 1..3 |->
                    TransmitWeighted(t, result.kr[1], result.shaded,
                        args.reflect_color, args.refract_color, ch)]))
        IN  \A ch \in 1..3 : Abs(result.color[ch] - weighted[ch]) <= 1

----------------------------------------------------------------------------
(* Cube::get_normal and Cube::get_uv_coordinates at arbitrary points        *)

\* Offsets of the point from the cube's centre on each axis: the centre,
\* inside, on a face of the unit cube, outside.
PointOffsets == {-500, -250, 0, 250, 500}

FaceArgs ==
    {[cube |-> c, point |-> [k \in 1..3 |-> CubeCenter(c)[k] + off[k]]] :
        c \in TestCubes, off \in PointOffsets \X PointOffsets \X PointOffsets}

InitFace ==
    /\ pc = "face_call"
    /\ args \in FaceArgs
    /\ result = <<>>
    /\ IdleCast /\ IdleFrame /\ IdleAssets

\* get_normal and get_uv_coordinates at one point of one cube, as
\* cast_ray_optimized_recursive calls them at a hit point.
CubeFace ==
    /\ pc = "face_call"
    /\ result' = [normal |-> get_normal(args.cube, args.point),
                  face |-> UvFace(args.cube, args.point),
                  uv |-> get_uv_coordinates(args.cube, args.point)]
    /\ pc' = "face_done"
    /\ UNCHANGED <<args, castVars, frameVars, textures>>

NextFace == CubeFace

SpecFace == InitFace /\ [][NextFace]_vars

\* The offset of the point from the centre on axis k; the test cubes
\* have the same extent on every axis, so the normalised offsets compare as
\* the offsets do.
FaceOffset(k) == args.point[k] - CubeCenter(args.cube)[k]

\* The axes on which a vector is not zero.
NonZeroAxes(v) == {k \in 1..3 : v[k] /= 0}

\* C21: at every point the axis get_uv_coordinates treats as dominant is
\* the axis on which get_normal is not zero, ties between axes included.
C21_SameDominantAxis ==
    pc = "face_done" => NonZeroAxes(result.normal) = {result.face}

\* C22 as stated: at every point get_normal has exactly one component of
\* magnitude 1 and two of 0.
C22_UnitNormal ==
    pc = "face_done" =>
        /\ Cardinality(NonZeroAxes(result.normal)) = 1
        /\ \A k \in 1..3 : result.normal[k] \in {-1, 0, 1}

\* The first axis whose magnitude is strictly above those before it and not
\* below those after it.
FirstLargestAxes ==
    {k \in 1..3 :
        /\ \A j \in 1..(k - 1) : Abs(FaceOffset(k)) > Abs(FaceOffset(j))
        /\ \A j \in (k + 1)..3 : Abs(FaceOffset(k)) >= Abs(FaceOffset(j))}

\* C22 amended: at every point other than the centre of the cube get_normal
\* is +1 or -1 on the first largest axis, with the sign of the offset there,
\* and 0 on the two others; at the centre it is the zero vector.
C22_UnitNormalOffCentre ==
    pc = "face_done" =>
        IF \A k \in 1..3 : FaceOffset(k) = 0
        THEN result.normal = <<0, 0, 0>>
        ELSE \E a \in FirstLargestAxes :
                 result.normal =
                     [k \in 1..3 |-> IF k /= a THEN 0
                                     ELSE IF FaceOffset(a) > 0 THEN 1 ELSE -1]

\* A point with all three magnitudes equal, negative on x:
\* the normal is (-1, 0, 0).
C22_Witness ==
    /\ pc = "face_done"
    /\ FaceOffset(1) = -500 /\ FaceOffset(2) = 500 /\ FaceOffset(3) = 500
    /\ result.normal = <<-1, 0, 0>>

----------------------------------------------------------------------------
(* OptimizedDiorama::new as a process: the height table, then one step per  *)
(* grid cell of the terrain loop, then the four fixed structures.  args is  *)
(* the position of the terrain loop, result the table and the cube list.    *)

InitNew ==
    /\ pc = "new_heights"
    /\ args = <<>>
    /\ result = <<>>
    /\ IdleCast /\ IdleFrame /\ IdleAssets

\* let terrain_heights = Self::generate_terrain_heights(grid_size)
GenerateTerrainHeights ==
    /\ pc = "new_heights"
    /\ result' = [heights |-> [z \in 0..(grid_size - 1) |->
                                  [x \in 0..(grid_size - 1) |-> TerrainHeight(x, z)]],
                  cubes |-> <<>>]
    /\ args' = [z |-> 0, x |-> 0]
    /\ pc' = "new_terrain"
    /\ UNCHANGED <<castVars, frameVars, textures>>

\* One pass of the body of `for x`: the y_level loop of cell (x, z).
TerrainColumn ==
    /\ pc = "new_terrain"
    /\ result' = [result EXCEPT !.cubes = @ \o ColumnCubes(args.x, args.z)]
    /\ IF args.x < grid_size - 1
       THEN args' = [args EXCEPT !.x = @ + 1] /\ pc' = pc
       ELSE IF args.z < grid_size - 1
       THEN args' = [z |-> args.z + 1, x |-> 0] /\ pc' = pc
       ELSE args' = args /\ pc' = "new_tree"
    /\ UNCHANGED <<castVars, frameVars, textures>>

\* Self::place_tree(&mut cubes, ..)
PlaceTree ==
    /\ pc = "new_tree"
    /\ result' = [result EXCEPT !.cubes = @ \o TreeCubes]
    /\ pc' = "new_crystal"
    /\ UNCHANGED <<args, castVars, frameVars, textures>>

\* Self::place_crystal_details(&mut cubes, ..)
PlaceCrystalDetails ==
    /\ pc = "new_crystal"
    /\ result' = [result EXCEPT !.cubes = @ \o CrystalCubes]
    /\ pc' = "new_roof"
    /\ UNCHANGED <<args, castVars, frameVars, textures>>

\* Self::place_overhang_roof(&mut cubes, ..)
PlaceOverhangRoof ==
    /\ pc = "new_roof"
    /\ result' = [result EXCEPT !.cubes = @ \o RoofCubes]
    /\ pc' = "new_cactus"
    /\ UNCHANGED <<args, castVars, frameVars, textures>>

\* Self::place_cactus(&mut cubes, ..)
PlaceCactus ==
    /\ pc = "new_cactus"
    /\ result' = [result EXCEPT !.cubes = @ \o CactusCubes]
    /\ pc' = "new_done"
    /\ UNCHANGED <<args, castVars, frameVars, textures>>

NextNew ==
    \/ GenerateTerrainHeights
    \/ TerrainColumn
    \/ PlaceTree
    \/ PlaceCrystalDetails
    \/ PlaceOverhangRoof
    \/ PlaceCactus

SpecNew == InitNew /\ [][NextNew]_vars

\* The grid cell and level of a cube, from its min corner.
CellOf(cube) ==
    [x |-> (cube.min[1] + cube_size \div 2 + offset - center[1]) \div spacing,
     y |-> (cube.min[2] + cube_size \div 2 - center[2]) \div spacing,
     z |-> (cube.min[3] + cube_size \div 2 + offset - center[3]) \div spacing]

\* The cells the terrain loop has finished, and the number of cubes of the
\* columns of height h over them.
CellsDone ==
    IF pc = "new_heights" THEN {}
    ELSE IF pc = "new_terrain"
    THEN {c \in (0..(grid_size - 1)) \X (0..(grid_size - 1)) :
             c[2] < args.z \/ (c[2] = args.z /\ c[1] < args.x)}
    ELSE (0..(grid_size - 1)) \X (0..(grid_size - 1))

\* C23: for grid_size 18 the height table is the one of the three zones:
\* rings of 6, 5, 4 around an interior of 3 for x < 6; 2 in the oasis
\* rectangle and 3 elsewhere for 6 <= x < 12; 3 for x in {12, 13}; for
\* x >= 14, 4 + ((x + 2z) mod 2) plus 2 within distance 2.5 of (17, 12),
\* 1 within 5.5, 0 beyond; every height lies in 2..7.
C23_TerrainHeights ==
    pc /= "new_heights" =>
        \A z \in 0..17, x \in 0..17 :
            LET h == result.heights[z][x]
                \* squared distance to (17, 12): 2.5^2 = 6.25, 5.5^2 = 30.25
                d2 == (x - 17) * (x - 17) + (z - 12) * (z - 12)
                bump == IF d2 <= 6 THEN 2 ELSE IF d2 <= 30 THEN 1 ELSE 0
            IN  /\ h \in 2..7
                /\ x < 6 =>
                     h = (IF x = 0 \/ z = 0 THEN 6
                          ELSE IF x = 1 \/ z = 1 THEN 5
                          ELSE IF x = 2 \/ z = 2 THEN 4 ELSE 3)
                /\ (x >= 6 /\ x < 12) =>
                     h = (IF x \in 8..10 /\ z \in 14..16 THEN 2 ELSE 3)
                /\ x \in {12, 13} => h = 3
                /\ x >= 14 => h = 4 + ((x + 2 * z) % 2) + bump

\* The table is built and holds each of the heights 2..7, the 7 at the
\* corner cell (17, 12).
C23_Witness ==
    /\ pc = "new_done"
    /\ {result.heights[z][x] : z \in 0..17, x \in 0..17} = 2..7
    /\ result.heights[12][17] = 7

\* The number of cubes of the columns of the finished cells when every
\* level 0..height has one: the sum of height + 1.
CubesOfCellsDone ==
    LET count(v) == Cardinality({c \in CellsDone : result.heights[c[2]][c[1]] = v})
    IN  3 * count(2) + 4 * count(3) + 5 * count(4) + 6 * count(5)
        + 7 * count(6) + 8 * count(7)

\* C24: should_place_cube accepts every (cell, level) pair but the levels
\* above 2 of the oasis rectangle; every pass of the terrain loop appends to
\* the list one cube for each level 0..height of its cell, in level order,
\* so the list holds the sum of height + 1 cubes of the finished cells, in
\* z-major, x, level order; no oasis column has a cube above level 2; the
\* structures are appended behind the terrain cubes.
C24_TerrainEmission ==
    /\ [](/\ \A x \in 0..17, z \in 0..17, l \in 0..7, h \in 2..7 :
                should_place_cube(x, z, l, h, grid_size)
                    <=> ~(x \in 8..10 /\ z \in 14..16 /\ l > 2)
          /\ pc /= "new_heights" =>
                /\ \A i \in 1..Len(result.cubes) :
                       LET c == CellOf(result.cubes[i]) IN
                       (c.x \in 8..10 /\ c.z \in 14..16 /\ i <= CubesOfCellsDone)
                           => c.y <= 2
                /\ pc = "new_terrain" => Len(result.cubes) = CubesOfCellsDone
                /\ pc /= "new_terrain" => Len(result.cubes) >= CubesOfCellsDone)
    /\ [][pc /= "new_heights" =>
            /\ SubSeq(result'.cubes, 1, Len(result.cubes)) = result.cubes
            /\ pc = "new_terrain" =>
                 LET h == result.heights[args.z][args.x]
                     n == Len(result.cubes)
                 IN  /\ Len(result'.cubes) = n + h + 1
                     /\ \A l \in 0..h :
                            CellOf(result'.cubes[n + l + 1])
                                = [x |-> args.x, y |-> l, z |-> args.z]]_vars

\* The terrain loop has ended with 1580 cubes, the last column (17, 17)
\* pushed last, and the oasis column (9, 15) holds its levels 0, 1, 2.
C24_Witness ==
    /\ pc = "new_tree"
    /\ Len(result.cubes) = 1580
    /\ CubesOfCellsDone = 1580
    /\ CellOf(result.cubes[1580]) = [x |-> 17, y |-> result.heights[17][17], z |-> 17]
    /\ {CellOf(result.cubes[i]).y :
           i \in {j \in 1..1580 : CellOf(result.cubes[j]).x = 9
                                 /\ CellOf(result.cubes[j]).z = 15}} = {0, 1, 2}

\* The terrain cubes pushed so far, as (cell, level, material tag).
TerrainSoFar ==
    IF pc = "new_heights" THEN {}
    ELSE {[cell |-> CellOf(result.cubes[i]),
           type |-> result.cubes[i].material.material_type] :
             i \in 1..Min(Len(result.cubes), CubesOfCellsDone)}

\* C25: in the oasis zone (6 <= x < 12) a terrain cube is Water only inside
\* the oasis rectangle; outside the rectangle the top cube of a column is
\* Sand and the cubes below it are Stone.
C25_WaterInOasisOnly ==
    \A c \in TerrainSoFar :
        (c.cell.x >= 6 /\ c.cell.x < 12) =>
            LET inside == c.cell.x \in 8..10 /\ c.cell.z \in 14..16
                top == result.heights[c.cell.z][c.cell.x]
            IN  /\ c.type = "Water" => inside
                /\ ~inside => c.type = (IF c.cell.y = top THEN "Sand" ELSE "Stone")

\* C26: in the cave zone (x < 6) the top cube of every column inside a
\* lava-pond rectangle is Lava, every Lava terrain cube is the top cube of
\* its column, and no terrain cube outside the cave zone is Lava.
C26_LavaOnTop ==
    \A c \in TerrainSoFar :
        LET top == result.heights[c.cell.z][c.cell.x] IN
        /\ (c.cell.x < 6 /\ c.cell.y = top
            /\ \/ (c.cell.x \in 2..4 /\ c.cell.z \in 2..4)
               \/ (c.cell.x \in 1..3 /\ c.cell.z \in 4..5)
               \/ (c.cell.x \in 2..4 /\ c.cell.z \in 14..16))
              => c.type = "Lava"
        /\ c.type = "Lava" => (c.cell.x < 6 /\ c.cell.y = top)

----------------------------------------------------------------------------
(* The fixed structures, under SpecNew                                      *)

\* The cubes appended behind the terrain, as (cell, material tag).
Appended ==
    IF pc = "new_heights" THEN {}
    ELSE {[cell |-> CellOf(result.cubes[i]),
           type |-> result.cubes[i].material.material_type] :
             i \in (CubesOfCellsDone + 1)..Len(result.cubes)}

\* The cells of the appended cubes of one material.
CellsOfType(t) == {c.cell : c \in {a \in Appended : a.type = t}}

GridCells == (0..(grid_size - 1)) \X (0..(grid_size - 1))

\* n cells stacked from level y up at cell g.
Stack(g, y, n) == {[x |-> g[1], y |-> y + k, z |-> g[2]] : k \in 0..(n - 1)}

\* C27: the cubes appended behind the terrain are 4 Wood cubes stacked at
\* one cell, the Leaves cubes of the 3x3x3 block above them with
\* |dx| + dy + |dz| <= 3, 2 stacked Cactus cubes at one cell, 2 stacked
\* Crystal cubes at each of two cells and a 6x7 plate of Stone cubes at one
\* level, and nothing else.
C27_FixedStructures ==
    pc = "new_done" =>
        LET wood == CellsOfType("Wood")
            leaves == CellsOfType("Leaves")
            cactus == CellsOfType("Cactus")
            crystal == CellsOfType("Crystal")
            stone == CellsOfType("Stone")
        IN  /\ Len(result.cubes) - CubesOfCellsDone = 4 + 23 + 2 + 4 + 42
            /\ Cardinality(Appended) = 4 + 23 + 2 + 4 + 42
            /\ {a.type : a \in Appended}
                   = {"Wood", "Leaves", "Cactus", "Crystal", "Stone"}
            /\ \E g \in GridCells, y \in 0..12 :
                  /\ wood = Stack(g, y, 4)
                  /\ leaves =
                        {[x |-> g[1] + d[1], y |-> y + 4 + d[2], z |-> g[2] + d[3]] :
                            d \in {d \in (-1..1) \X (0..2) \X (-1..1) :
                                      Abs(d[1]) + d[2] + Abs(d[3]) <= 3}}
            /\ \E g \in GridCells, y \in 0..12 : cactus = Stack(g, y, 2)
            /\ \E g1 \in GridCells, y1 \in 0..12 :
                  /\ Stack(g1, y1, 2) \subseteq crystal
                  /\ \E g2 \in GridCells \ {g1}, y2 \in 0..12 :
                        crystal \ Stack(g1, y1, 2) = Stack(g2, y2, 2)
            /\ \E g \in GridCells, y \in 0..12 :
                  stone = {[x |-> g[1] + i, y |-> y, z |-> g[2] + j] :
                              i \in 0..5, j \in 0..6}

\* The list is complete, 75 cubes behind the 1580 of the terrain; the top
\* layer of the canopy has its centre but not its corner.
C27_Witness ==
    /\ pc = "new_done"
    /\ Len(result.cubes) = 1655
    /\ CubesOfCellsDone = 1580
    /\ [x |-> 14, y |-> 11, z |-> 13] \in CellsOfType("Leaves")
    /\ [x |-> 15, y |-> 11, z |-> 14] \notin CellsOfType("Leaves")

\* C29: no two cubes of the list have the same min corner: no structure
\* cube is placed where a terrain cube or another structure cube is.
C29_DistinctCubes ==
    pc /= "new_heights" =>
        \A i \in 1..Len(result.cubes) :
            \A j \in (i + 1)..Len(result.cubes) :
                result.cubes[i].min /= result.cubes[j].min

----------------------------------------------------------------------------
(* The statistics record, under FairSpecCast                                *)

\* C28: after any sequence of calls from zeroed statistics every counted
\* ray is either a hit or a miss, hits + misses = rays_cast and
\* hits <= rays_cast, and objects_tested is never changed.
C28_StatsConsistent ==
    /\ stats.hits + stats.misses = stats.rays_cast
    /\ stats.hits <= stats.rays_cast
    /\ stats.objects_tested = 0

----------------------------------------------------------------------------
(* The orbit distance and the reset, under SpecCamera                       *)

\* C30: the orbit distance stays within [1, 20]; a zoom step changes only
\* the distance and the cached vectors, an orbit step only yaw, pitch and
\* the cached vectors; after a reset step the camera is the one of start-up
\* (target (0, 2, 0), distance 10, yaw 0.8, pitch 0.4, vectors derived from
\* them) whatever it was before.
C30_DistanceAndReset ==
    /\ [](camera.distance >= 1000 /\ camera.distance <= 20000)
    /\ [][/\ CameraZoom =>
                /\ camera'.yaw = camera.yaw /\ camera'.pitch = camera.pitch
                /\ camera'.target = camera.target
          /\ CameraOrbit =>
                /\ camera'.distance = camera.distance
                /\ camera'.target = camera.target
          /\ CameraReset =>
                /\ camera'.target = <<0, 2000, 0>>
                /\ camera'.distance = 10000
                /\ camera'.yaw = 800 /\ camera'.pitch = 400
                /\ camera' = update(camera')]_vars

\* The distance was pushed to its upper limit and the camera turned.
C30_Witness ==
    /\ camera.distance = 20000
    /\ camera.yaw /= 0
    /\ applied.calls = MaxCameraCalls

\* The distance at its lower limit.
C30_WitnessNear == camera.distance = 1000 /\ applied.calls >= 2

====
